---- MODULE Spec2Model ----
(***************************************************************************)
(* Orchestration core of the walker repository: the module registry and    *)
(* dispatcher (core/module_executor.py), the strategy planner and the      *)
(* compatibility scorer (core/walker.py, modules/base_module.py,           *)
(* modules/data_describe_module.py), the workflow graph and its router     *)
(* (core/graph_builder.py, core/router.py) and the intent parser           *)
(* (agents/intent_parser.py, llm/glm.py).                                  *)
(*                                                                         *)
(* Six specifications share the variables:                                 *)
(*   SpecExec      the ModuleExecutor: plan building and dispatch          *)
(*   SpecRegistry  the ModuleExecutor: load, get, reload, clear            *)
(*   SpecWalker    the Walker: databases, scoring, generate_strategies     *)
(*   SpecFlow      the state graph of GraphBuilder.build_graph, the router *)
(*   SpecIntent    IntentParser.parse_intent                               *)
(*   SpecCallers   two callers inside ModuleExecutor.get_module_instance   *)
(***************************************************************************)
EXTENDS Integers, Sequences, FiniteSets, TLC

VARIABLES
    \* ---- ModuleExecutor (core/module_executor.py)
    loaded_modules,      \* self.loaded_modules: module id -> class name
    module_instances,    \* self.module_instances: module id -> instance
    next_serial,         \* identity of the next object a constructor creates
    got_instance,        \* value returned by the last get_module_instance
    execution_plan,      \* list returned by the last create_execution_plan
    execution_results,   \* list returned by the last execute_plan
    step_conduct,        \* how the capability of each step behaved in that run
    dispatched,          \* module ids handed to execute_module in that run
    invoked,             \* per step, the methods of the instance called in that run
    returned_since_reg,  \* id -> serials that get returned since id was (re)registered
    created_since_reg,   \* id -> serials constructed since id was (re)registered
    returned_since_drop, \* as returned_since_reg, also emptied by clear_instances
    created_since_drop,  \* as created_since_reg, also emptied by clear_instances
    exec_op,             \* name of the last ModuleExecutor operation
    callers,             \* caller -> where its get_module_instance call stands
    \* ---- Walker (core/walker.py)
    modules_metadata,    \* self.modules_metadata: the module configs read at start
    registered_modules,  \* self.registered_modules: module id -> info, instance
    available_databases, \* self.available_databases: list of db_info
    user_intent,         \* arguments of the last generate_strategies call
    max_strategies,
    min_compatibility_score,
    checks,              \* compatibility results computed during that call, in order
    candidates,          \* strategies appended during that call, before the sort
    returned_strategies, \* list returned by that call
    compatibility,       \* result of the last direct compatibility check
    check_args,          \* the instance and the db_info of that check
    walker_op,           \* name of the last Walker operation
    \* ---- workflow graph (core/graph_builder.py, core/router.py)
    state,               \* the WorkflowState dict of the running request
    node,                \* node the compiled graph runs next, "END" when done
    visited,             \* nodes the graph has run, in order
    flow_op,             \* name of the last router operation
    workflow_graph,      \* self.workflow_graph: "compiled", or "None" without LangGraph
    router_result,       \* dict returned by process_user_question, NoResult before
    \* ---- IntentParser (agents/intent_parser.py)
    intent_parse         \* the last parse_intent call: question, language model, result

execVars == <<loaded_modules, module_instances, next_serial, got_instance,
              execution_plan, execution_results, step_conduct, dispatched, invoked,
              returned_since_reg, created_since_reg, returned_since_drop,
              created_since_drop, exec_op, callers>>

walkerVars == <<modules_metadata, registered_modules, available_databases,
                user_intent, max_strategies, min_compatibility_score, checks,
                candidates, returned_strategies, compatibility, check_args,
                walker_op>>

flowVars == <<state, node, visited, flow_op, workflow_graph, router_result,
              intent_parse>>

vars == <<execVars, walkerVars, flowVars>>

(***************************************************************************)
(* Bounds of the model.                                                    *)
(***************************************************************************)
MaxPlanSteps == 3
MaxInstances == 3
MaxStrategies == 3
MaxQuestionWords == 2

(***************************************************************************)
(* Values.                                                                 *)
(***************************************************************************)
ExecModuleIds == {"data_describe", "trend_analysis"}

\* the threads that share the executor of get_module_executor()
Callers == {"caller_1", "caller_2"}

\* a caller outside get_module_instance, with the value its last call returned
Caller(at, module_id, instance) == [at |-> at, module_id |-> module_id, instance |-> instance]

\* python None for an instance, and for a module_config argument
NoInstance == [cls |-> "None", serial |-> 0]
NoConfig == [module_id |-> "", file_path |-> "", class_name |-> ""]

IdleCaller == Caller("idle", "", NoInstance)

\* the files and classes an import can find
ImportableFiles == {"modules/module_a.py"}
DefinedClasses == {"ModuleA", "ModuleB"}

\* configs handed to the registry: complete ones, one whose file cannot be
\* imported, one whose class the file does not define, one with no class_name
ConfigShapes ==
    {<<"modules/module_a.py", "ModuleA">>, <<"modules/module_a.py", "ModuleB">>,
     <<"modules/no_such_file.py", "ModuleA">>, <<"modules/module_a.py", "NoSuchClass">>,
     <<"modules/module_a.py", "">>}
ModuleConfigs ==
    {[module_id |-> id, file_path |-> sh[1], class_name |-> sh[2]] :
        id \in ExecModuleIds, sh \in ConfigShapes}

\* f without the key k (python: del f[k])
DictDel(f, k) == [x \in (DOMAIN f) \ {k} |-> f[x]]

\* f with f[k] = v (python: f[k] = v)
DictSet(f, k, v) == [x \in (DOMAIN f) \cup {k} |-> IF x = k THEN v ELSE f[x]]

EmptyDict == [x \in {} |-> 0]

(***************************************************************************)
(* ModuleExecutor: the registry.                                           *)
(***************************************************************************)

\* load_module_from_config: the class found ("" for None) and the new
\* loaded_modules.  An incomplete config, a failed import and a missing
\* class all return None and register nothing.
LoadModuleFromConfigOp(module_config, loaded) ==
    IF module_config.file_path = "" \/ module_config.class_name = ""
    THEN [cls |-> "", loaded |-> loaded]
    ELSE IF module_config.file_path \notin ImportableFiles
    THEN [cls |-> "", loaded |-> loaded]
    ELSE IF module_config.class_name \in DefinedClasses
    THEN [cls |-> module_config.class_name,
          loaded |-> DictSet(loaded, module_config.module_id,
                             module_config.class_name)]
    ELSE [cls |-> "", loaded |-> loaded]

\* get_module_instance that constructs again although an instance is cached
GetModuleInstanceNoCache(module_id, module_config, ctor_ok, insts, loaded, serial) ==
    IF module_id \in DOMAIN loaded /\ ctor_ok
    THEN LET instance == [cls |-> loaded[module_id], serial |-> serial + 1]
         IN [instance |-> instance, insts |-> DictSet(insts, module_id, instance),
             loaded |-> loaded, serial |-> serial + 1, registered |-> FALSE]
    ELSE [instance |-> NoInstance, insts |-> insts, loaded |-> loaded,
          serial |-> serial, registered |-> FALSE]

\* get_module_instance: the cached instance; else a new instance of the
\* loaded class; else, with a config, load the class and instantiate it.
\* ctor_ok = FALSE: the constructor raises when it is called.
GetModuleInstanceOp(module_id, module_config, ctor_ok, insts, loaded, serial) ==
    IF module_id \in DOMAIN insts
    THEN [instance |-> insts[module_id], insts |-> insts, loaded |-> loaded,
          serial |-> serial, registered |-> FALSE]
    ELSE IF module_id \in DOMAIN loaded
    THEN IF ctor_ok
         THEN LET instance == [cls |-> loaded[module_id], serial |-> serial + 1]
              IN [instance |-> instance,
                  insts |-> DictSet(insts, module_id, instance),
                  loaded |-> loaded, serial |-> serial + 1, registered |-> FALSE]
         ELSE [instance |-> NoInstance, insts |-> insts, loaded |-> loaded,
               serial |-> serial, registered |-> FALSE]
    ELSE IF module_config # NoConfig
    THEN LET l == LoadModuleFromConfigOp(module_config, loaded)
         IN IF l.cls # "" /\ ctor_ok
            THEN LET instance == [cls |-> l.cls, serial |-> serial + 1]
                 IN [instance |-> instance,
                     insts |-> DictSet(insts, module_id, instance),
                     loaded |-> l.loaded, serial |-> serial + 1,
                     registered |-> TRUE]
            ELSE [instance |-> NoInstance, insts |-> insts, loaded |-> l.loaded,
                  serial |-> serial, registered |-> l.cls # ""]
    ELSE [instance |-> NoInstance, insts |-> insts, loaded |-> loaded,
          serial |-> serial, registered |-> FALSE]

\* history: forget what was returned / constructed for the ids in S
Forget(h, S) == [id \in DOMAIN h |-> IF id \in S THEN {} ELSE h[id]]

\* history: the instance inst was returned / constructed for id
Note(h, id, inst) ==
    IF inst = NoInstance THEN h
    ELSE [h EXCEPT ![id] = @ \cup {inst.serial}]

LoadModuleFromConfig(module_config) ==
    LET l == LoadModuleFromConfigOp(module_config, loaded_modules)
        reg == IF l.cls # "" THEN {module_config.module_id} ELSE {}
    IN /\ loaded_modules' = l.loaded
       /\ returned_since_reg' = Forget(returned_since_reg, reg)
       /\ created_since_reg' = Forget(created_since_reg, reg)
       /\ returned_since_drop' = Forget(returned_since_drop, reg)
       /\ created_since_drop' = Forget(created_since_drop, reg)
       /\ exec_op' = "load_module_from_config"
       /\ UNCHANGED <<walkerVars, callers, flowVars, module_instances, next_serial, got_instance,
                      execution_plan, execution_results, step_conduct, dispatched, invoked>>

GetModuleInstance(module_id, module_config, ctor_ok) ==
    LET g == GetModuleInstanceOp(module_id, module_config, ctor_ok,
                                 module_instances, loaded_modules, next_serial)
        reg == IF g.registered THEN {module_config.module_id} ELSE {}
        made == IF g.serial > next_serial THEN g.instance ELSE NoInstance
    IN /\ g.serial <= MaxInstances
       /\ loaded_modules' = g.loaded
       /\ module_instances' = g.insts
       /\ next_serial' = g.serial
       /\ got_instance' = g.instance
       /\ returned_since_reg' = Note(Forget(returned_since_reg, reg), module_id, g.instance)
       /\ created_since_reg' = Note(Forget(created_since_reg, reg), module_id, made)
       /\ returned_since_drop' = Note(Forget(returned_since_drop, reg), module_id, g.instance)
       /\ created_since_drop' = Note(Forget(created_since_drop, reg), module_id, made)
       /\ exec_op' = IF module_id \in DOMAIN module_instances
                     THEN "get_module_instance (cached)"
                     ELSE "get_module_instance"
       /\ UNCHANGED <<walkerVars, callers, flowVars, execution_plan, execution_results, step_conduct, dispatched, invoked>>

\* clear_instances: self.module_instances.clear()
ClearInstances ==
    /\ module_instances' = EmptyDict
    /\ returned_since_drop' = Forget(returned_since_drop, ExecModuleIds)
    /\ created_since_drop' = Forget(created_since_drop, ExecModuleIds)
    /\ exec_op' = "clear_instances"
    /\ UNCHANGED <<walkerVars, callers, flowVars, loaded_modules, next_serial, got_instance, execution_plan,
                   execution_results, step_conduct, dispatched, invoked,
                   returned_since_reg, created_since_reg>>

\* a reload_module that leaves the cached instance of module_id in place
ReloadModuleKeepsInstance(module_id, module_config) ==
    LET l == LoadModuleFromConfigOp(module_config, DictDel(loaded_modules, module_id))
        reg == {module_id} \cup (IF l.cls # "" THEN {module_config.module_id} ELSE {})
    IN /\ module_instances' = module_instances
       /\ loaded_modules' = l.loaded
       /\ returned_since_reg' = Forget(returned_since_reg, reg)
       /\ created_since_reg' = Forget(created_since_reg, reg)
       /\ returned_since_drop' = Forget(returned_since_drop, reg)
       /\ created_since_drop' = Forget(created_since_drop, reg)
       /\ exec_op' = "reload_module"
       /\ UNCHANGED <<walkerVars, callers, flowVars, next_serial, got_instance, execution_plan,
                      execution_results, step_conduct, dispatched, invoked>>

\* reload_module: drop the instance and the class of module_id, then load
\* the class the config names (under the config's own module_id)
ReloadModule(module_id, module_config) ==
    LET l == LoadModuleFromConfigOp(module_config, DictDel(loaded_modules, module_id))
        reg == {module_id} \cup (IF l.cls # "" THEN {module_config.module_id} ELSE {})
    IN /\ module_instances' = DictDel(module_instances, module_id)
       /\ loaded_modules' = l.loaded
       /\ returned_since_reg' = Forget(returned_since_reg, reg)
       /\ created_since_reg' = Forget(created_since_reg, reg)
       /\ returned_since_drop' = Forget(returned_since_drop, reg)
       /\ created_since_drop' = Forget(created_since_drop, reg)
       /\ exec_op' = "reload_module"
       /\ UNCHANGED <<walkerVars, callers, flowVars, next_serial, got_instance, execution_plan,
                      execution_results, step_conduct, dispatched, invoked>>

(***************************************************************************)
(* ModuleExecutor: plan building and dispatch.                             *)
(***************************************************************************)

\* an insertion that puts x before the elements of its own priority
RECURSIVE InsertAfterLower(_, _)
InsertAfterLower(sorted, x) ==
    IF sorted = <<>> THEN <<x>>
    ELSE IF Head(sorted).priority < x.priority
         THEN <<Head(sorted)>> \o InsertAfterLower(Tail(sorted), x)
         ELSE <<x>> \o sorted

\* list.sort(key=priority) is stable: x goes behind every element whose
\* priority is not greater than its own
RECURSIVE InsertAscending(_, _)
InsertAscending(sorted, x) ==
    IF sorted = <<>> THEN <<x>>
    ELSE IF Head(sorted).priority <= x.priority
         THEN <<Head(sorted)>> \o InsertAscending(Tail(sorted), x)
         ELSE <<x>> \o sorted

RECURSIVE SortAscending(_)
SortAscending(s) ==
    IF s = <<>> THEN <<>>
    ELSE InsertAscending(SortAscending(SubSeq(s, 1, Len(s) - 1)), s[Len(s)])

\* create_execution_plan: one step per strategy whose module_id is loaded,
\* step_id = position of the strategy (1-based), sorted by priority ascending
CreateExecutionPlanOp(strategies, loaded) ==
    LET steps == [i \in 1..Len(strategies) |->
                    [step_id |-> i,
                     module_id |-> strategies[i].module_id,
                     parameters |-> strategies[i].parameters,
                     database_info |-> strategies[i].database_info,
                     priority |-> strategies[i].priority]]
        IsLoaded(step) == step.module_id \in DOMAIN loaded
    IN SortAscending(SelectSeq(steps, IsLoaded))

\* How the capability behind a step conducts itself when it is called:
\*   ok               validate_parameters accepts, prepare_data/run/summarize work
\*   ctor_throws      as ok, but the constructor raises if it has to be called
\*   invalid          validate_parameters returns valid = False
\*   phase_throws     prepare_data, run or summarize raises (execute catches it)
\*   execute_throws   validate_parameters or an overriding execute raises
\*   execute_none     an overriding execute returns None
Conducts == {"ok", "ctor_throws", "invalid", "phase_throws", "execute_throws",
             "execute_none"}

\* a python dict returned by execute / execute_module, by the keys read later
Dict(success, result, error) ==
    [is_dict |-> TRUE, keys |-> {"success"} \cup (IF result # "" THEN {"result"} ELSE {})
                                \cup (IF error # "" THEN {"error"} ELSE {}),
     success |-> success, result |-> result, error |-> error]
NoneValue == [is_dict |-> FALSE, keys |-> {}, success |-> FALSE, result |-> "", error |-> ""]

\* the parameters a class declares as required, without a default value, in
\* get_requirements: ModuleB stands for a class like TrendAnalysisModule,
\* ModuleA for one whose parameters all have a default
RequiredParameters(cls) ==
    IF cls = "ModuleB" THEN {"date_field", "value_field"} ELSE {}

\* BaseAnalysisModule.validate_parameters, which no module class overrides
ValidateParameters(cls, parameters) == [valid |-> TRUE, error |-> ""]

\* prepare_data starts with params.get(name) of each required parameter and
\* raises ValueError if one is missing
PrepareDataRaises(cls, parameters) ==
    \E name \in RequiredParameters(cls) : name \notin DOMAIN parameters

\* BaseAnalysisModule.execute: the standard result (it has no "result" key),
\* or _handle_error's when one of the three phases raises; with the phases
\* it called
BaseExecute(cls, parameters, conduct) ==
    IF PrepareDataRaises(cls, parameters)
    THEN [result |-> Dict(FALSE, "", "module failed"), invoked |-> <<"prepare_data">>]
    ELSE IF conduct = "phase_throws"
    THEN [result |-> Dict(FALSE, "", "module failed"), invoked |-> <<"prepare_data">>]
    ELSE [result |-> Dict(TRUE, "", ""),
          invoked |-> <<"prepare_data", "run", "summarize">>]

\* execute_module: instance, validation, execute; any exception becomes a
\* failure dict.  Returns the dict, the methods of the instance that were
\* called and the registry after the call.
ExecuteModuleOp(module_id, parameters, conduct, insts, loaded, serial) ==
    LET g == GetModuleInstanceOp(module_id, NoConfig, conduct # "ctor_throws",
                                 insts, loaded, serial)
        validation == ValidateParameters(g.instance.cls, parameters)
        e == BaseExecute(g.instance.cls, parameters, conduct)
        r == IF g.instance = NoInstance
             THEN [result |-> Dict(FALSE, "", "no module instance"), invoked |-> <<>>]
             ELSE IF conduct = "invalid" \/ ~validation.valid
             THEN [result |-> Dict(FALSE, "", "parameter validation failed"),
                   invoked |-> <<"validate_parameters">>]
             ELSE IF conduct = "execute_throws"
             THEN [result |-> Dict(FALSE, "", "module raised"),
                   invoked |-> <<"validate_parameters", "execute">>]
             ELSE IF conduct = "execute_none"
             THEN [result |-> NoneValue,
                   invoked |-> <<"validate_parameters", "execute">>]
             ELSE [result |-> e.result,
                   invoked |-> <<"validate_parameters", "execute">> \o e.invoked]
    IN [result |-> r.result, invoked |-> r.invoked, instance |-> g.instance,
        insts |-> g.insts, serial |-> g.serial]

\* the entry execute_plan appends for one step: result.get(...) of the dict,
\* or the except branch when the module returned no dict
StepResult(step, result) ==
    IF result.is_dict
    THEN [step_id |-> step.step_id, module_id |-> step.module_id,
          success |-> IF "success" \in result.keys THEN result.success ELSE FALSE,
          output |-> IF "result" \in result.keys THEN result.result ELSE "",
          error |-> IF "error" \in result.keys THEN result.error ELSE "None"]
    ELSE [step_id |-> step.step_id, module_id |-> step.module_id,
          success |-> FALSE, output |-> "", error |-> "attribute error"]

\* execute_plan's loop from step i on; acc carries the results, the ids
\* dispatched, the instances returned and the registry
RECURSIVE ExecutePlanLoop(_, _, _, _, _)
ExecutePlanLoop(plan, conduct, loaded, i, acc) ==
    IF i > Len(plan) THEN acc
    ELSE LET step == plan[i]
             e == ExecuteModuleOp(step.module_id, step.parameters, conduct[i],
                                  acc.insts, loaded, acc.serial)
         IN ExecutePlanLoop(plan, conduct, loaded, i + 1,
                [results |-> Append(acc.results, StepResult(step, e.result)),
                 dispatched |-> Append(acc.dispatched, step.module_id),
                 invoked |-> Append(acc.invoked, e.invoked),
                 returned |-> acc.returned \cup
                              (IF e.instance = NoInstance THEN {}
                               ELSE {<<step.module_id, e.instance.serial>>}),
                 insts |-> e.insts, serial |-> e.serial])

\* the position of the first failed result, 0 if none
FirstFailure(results) ==
    IF \E i \in 1..Len(results) : ~results[i].success
    THEN CHOOSE i \in 1..Len(results) :
            /\ ~results[i].success
            /\ \A j \in 1..(i - 1) : results[j].success
    ELSE 0

\* an execute_plan that leaves the loop at the first failed step
ExecutePlanStopsAtFailure(plan, conduct, insts, loaded, serial) ==
    LET full == ExecutePlanLoop(plan, conduct, loaded, 1,
                    [results |-> <<>>, dispatched |-> <<>>, invoked |-> <<>>, returned |-> {},
                     insts |-> insts, serial |-> serial])
        k == FirstFailure(full.results)
    IN IF k = 0 THEN full
       ELSE ExecutePlanLoop(SubSeq(plan, 1, k), conduct, loaded, 1,
                    [results |-> <<>>, dispatched |-> <<>>, invoked |-> <<>>, returned |-> {},
                     insts |-> insts, serial |-> serial])

\* an execute_plan whose except branch records nothing for the step
ExecutePlanDropsRaisedStep(plan, conduct, insts, loaded, serial) ==
    LET full == ExecutePlanLoop(plan, conduct, loaded, 1,
                    [results |-> <<>>, dispatched |-> <<>>, invoked |-> <<>>, returned |-> {},
                     insts |-> insts, serial |-> serial])
        Recorded(r) == r.error # "attribute error"
    IN [full EXCEPT !.results = SelectSeq(full.results, Recorded)]

\* execute_plan
ExecutePlanOp(plan, conduct, insts, loaded, serial) ==
    ExecutePlanLoop(plan, conduct, loaded, 1,
        [results |-> <<>>, dispatched |-> <<>>, invoked |-> <<>>, returned |-> {},
         insts |-> insts, serial |-> serial])

\* the strategies a caller can hand to create_execution_plan
StrategyInput(module_id, priority) ==
    [module_id |-> module_id, parameters |-> [name \in {"data_source"} |-> "data"],
     database_info |-> "local_csv_data", priority |-> priority]
StrategyInputs ==
    {StrategyInput("data_describe", 2), StrategyInput("trend_analysis", 1)}

RECURSIVE SeqsUpTo(_, _)
SeqsUpTo(S, n) ==
    IF n = 0 THEN {<<>>}
    ELSE LET shorter == SeqsUpTo(S, n - 1)
         IN shorter \cup {Append(q, x) : q \in {r \in shorter : Len(r) = n - 1}, x \in S}

CreateExecutionPlan(strategies) ==
    /\ execution_plan' = CreateExecutionPlanOp(strategies, loaded_modules)
    /\ exec_op' = "create_execution_plan"
    /\ UNCHANGED <<walkerVars, callers, flowVars, loaded_modules, module_instances, next_serial, got_instance,
                   execution_results, step_conduct, dispatched, invoked,
                   returned_since_reg, created_since_reg, returned_since_drop,
                   created_since_drop>>

\* history after a dispatch: serials returned for id, serials constructed for id
NoteAll(h, pairs, S) ==
    [id \in DOMAIN h |-> h[id] \cup {p[2] : p \in {q \in pairs : q[1] = id /\ q[2] \in S}}]

ExecutePlan(conduct) ==
    LET r == ExecutePlanOp(execution_plan, conduct, module_instances,
                           loaded_modules, next_serial)
        fresh == (next_serial + 1)..r.serial
    IN /\ r.serial <= MaxInstances
       /\ execution_results' = r.results
       /\ dispatched' = r.dispatched
       /\ invoked' = r.invoked
       /\ step_conduct' = conduct
       /\ module_instances' = r.insts
       /\ next_serial' = r.serial
       /\ returned_since_reg' = NoteAll(returned_since_reg, r.returned, 1..r.serial)
       /\ created_since_reg' = NoteAll(created_since_reg, r.returned, fresh)
       /\ returned_since_drop' = NoteAll(returned_since_drop, r.returned, 1..r.serial)
       /\ created_since_drop' = NoteAll(created_since_drop, r.returned, fresh)
       /\ exec_op' = "execute_plan"
       /\ UNCHANGED <<walkerVars, callers, flowVars, loaded_modules, got_instance, execution_plan>>

InitExec ==
    /\ loaded_modules = EmptyDict
    /\ module_instances = EmptyDict
    /\ next_serial = 0
    /\ got_instance = NoInstance
    /\ execution_plan = <<>>
    /\ execution_results = <<>>
    /\ step_conduct = <<>>
    /\ dispatched = <<>>
    /\ invoked = <<>>
    /\ returned_since_reg = [id \in ExecModuleIds |-> {}]
    /\ created_since_reg = [id \in ExecModuleIds |-> {}]
    /\ returned_since_drop = [id \in ExecModuleIds |-> {}]
    /\ created_since_drop = [id \in ExecModuleIds |-> {}]
    /\ exec_op = "init"
    /\ callers = [c \in Callers |-> IdleCaller]

\* the registry at the start of a request: what the host application loaded
LoadedAtStart ==
    {EmptyDict,
     [id \in {"data_describe"} |-> "ModuleA"],
     [id \in ExecModuleIds |-> "ModuleA"],
     [id \in ExecModuleIds |-> IF id = "data_describe" THEN "ModuleA" ELSE "ModuleB"]}

\* a reload between planning and dispatch whose import fails: the module is
\* gone when its step is dispatched
ReloadConfigs ==
    {[module_id |-> "trend_analysis", file_path |-> "modules/no_such_file.py",
      class_name |-> "ModuleA"]}

\* One pass of planning and dispatch: the plan is built from the strategies,
\* a module may be reloaded before the dispatch, the plan is dispatched.
InitDispatch ==
    /\ loaded_modules \in LoadedAtStart
    /\ module_instances = EmptyDict
    /\ next_serial = 0
    /\ got_instance = NoInstance
    /\ execution_plan = <<>>
    /\ execution_results = <<>>
    /\ step_conduct = <<>>
    /\ dispatched = <<>>
    /\ invoked = <<>>
    /\ returned_since_reg = [id \in ExecModuleIds |-> {}]
    /\ created_since_reg = [id \in ExecModuleIds |-> {}]
    /\ returned_since_drop = [id \in ExecModuleIds |-> {}]
    /\ created_since_drop = [id \in ExecModuleIds |-> {}]
    /\ exec_op = "init"
    /\ callers = [c \in Callers |-> IdleCaller]

NextDispatch ==
    \/ /\ exec_op = "init"
       /\ \E strategies \in SeqsUpTo(StrategyInputs, MaxPlanSteps) :
            CreateExecutionPlan(strategies)
    \/ /\ exec_op = "create_execution_plan"
       /\ \E module_config \in ReloadConfigs :
            ReloadModule(module_config.module_id, module_config)
    \/ /\ exec_op \in {"create_execution_plan", "reload_module"}
       /\ \E conduct \in [1..Len(execution_plan) -> Conducts] : ExecutePlan(conduct)


\* The registry in any order of its operations.
NextRegistry ==
    \/ \E module_config \in ModuleConfigs : LoadModuleFromConfig(module_config)
    \/ \E module_id \in ExecModuleIds, module_config \in ModuleConfigs \cup {NoConfig},
          ctor_ok \in BOOLEAN :
            GetModuleInstance(module_id, module_config, ctor_ok)
    \/ ClearInstances
    \/ \E module_id \in ExecModuleIds, module_config \in ModuleConfigs :
            ReloadModule(module_id, module_config)


\* get_module_instance(module_id) called by two threads on the executor they
\* share: each line of the method is a step of its own.  A caller enters the
\* method ...
EnterGet(c, module_id) ==
    /\ callers[c].at \in {"idle", "returned"}
    /\ callers' = [callers EXCEPT ![c] = Caller("line_90", module_id, NoInstance)]
    /\ exec_op' = "enter get_module_instance"
    /\ UNCHANGED <<walkerVars, flowVars, loaded_modules, module_instances, next_serial,
                   got_instance, execution_plan, execution_results, step_conduct,
                   dispatched, invoked, returned_since_reg, created_since_reg,
                   returned_since_drop, created_since_drop>>

\* ... looks the id up in the cache and in the registry (lines 90-94, 116-117) ...
CheckCache(c) ==
    LET module_id == callers[c].module_id
        cached == module_id \in DOMAIN module_instances
        instance == IF cached THEN module_instances[module_id] ELSE NoInstance
        returns == cached \/ module_id \notin DOMAIN loaded_modules
    IN /\ callers[c].at = "line_90"
       /\ callers' = [callers EXCEPT ![c] =
                         IF returns THEN Caller("returned", module_id, instance)
                         ELSE Caller("line_97", module_id, NoInstance)]
       /\ got_instance' = IF returns THEN instance ELSE got_instance
       /\ returned_since_reg' = Note(returned_since_reg, module_id, instance)
       /\ returned_since_drop' = Note(returned_since_drop, module_id, instance)
       /\ exec_op' = IF cached THEN "get_module_instance (cached)"
                     ELSE IF returns THEN "get_module_instance"
                     ELSE "get_module_instance line 94"
       /\ UNCHANGED <<walkerVars, flowVars, loaded_modules, module_instances, next_serial,
                      execution_plan, execution_results, step_conduct, dispatched,
                      invoked, created_since_reg, created_since_drop>>

\* ... constructs the instance (lines 96-97) ...
Construct(c) ==
    LET module_id == callers[c].module_id
        instance == [cls |-> loaded_modules[module_id], serial |-> next_serial + 1]
    IN /\ callers[c].at = "line_97"
       /\ next_serial < MaxInstances
       /\ next_serial' = next_serial + 1
       /\ callers' = [callers EXCEPT ![c] = Caller("line_98", module_id, instance)]
       /\ created_since_reg' = Note(created_since_reg, module_id, instance)
       /\ created_since_drop' = Note(created_since_drop, module_id, instance)
       /\ exec_op' = "get_module_instance line 97"
       /\ UNCHANGED <<walkerVars, flowVars, loaded_modules, module_instances, got_instance,
                      execution_plan, execution_results, step_conduct, dispatched,
                      invoked, returned_since_reg, returned_since_drop>>

\* ... and stores and returns it (lines 98-99)
StoreAndReturn(c) ==
    LET module_id == callers[c].module_id
        instance == callers[c].instance
    IN /\ callers[c].at = "line_98"
       /\ module_instances' = DictSet(module_instances, module_id, instance)
       /\ callers' = [callers EXCEPT ![c] = Caller("returned", module_id, instance)]
       /\ got_instance' = instance
       /\ returned_since_reg' = Note(returned_since_reg, module_id, instance)
       /\ returned_since_drop' = Note(returned_since_drop, module_id, instance)
       /\ exec_op' = "get_module_instance"
       /\ UNCHANGED <<walkerVars, flowVars, loaded_modules, next_serial, execution_plan,
                      execution_results, step_conduct, dispatched, invoked,
                      created_since_reg, created_since_drop>>

\* Two threads calling get_module_instance on a loaded registry, their lines
\* interleaved in any order.
NextCallers ==
    \/ \E c \in Callers, module_id \in ExecModuleIds : EnterGet(c, module_id)
    \/ \E c \in Callers : CheckCache(c)
    \/ \E c \in Callers : Construct(c)
    \/ \E c \in Callers : StoreAndReturn(c)

(***************************************************************************)
(* Walker (src/core/walker.py) and the compatibility scorer of the modules *)
(* (src/modules/base_module.py, src/modules/data_describe_module.py).      *)
(***************************************************************************)

\* a Python float that is a ratio of small integers, kept exact in lowest terms
RECURSIVE Gcd(_, _)
Gcd(a, b) == IF b = 0 THEN a ELSE Gcd(b, a % b)

Rat(n, d) == LET g == Gcd(n, d) IN [num |-> n \div g, den |-> d \div g]

RatLeq(a, b) == a.num * b.den <= b.num * a.den

RatMin(a, b) == IF RatLeq(a, b) THEN a ELSE b

RatAdd(a, b) == Rat(a.num * b.den + b.num * a.den, a.den * b.den)

RatMul(a, b) == Rat(a.num * b.num, a.den * b.den)

\* int(x * k) for a non-negative float x
IntOfProduct(x, k) == (x.num * k) \div x.den

\* Python text is a sequence of characters; "#" stands for one CJK character
LowerChar(c) == IF c = "T" THEN "t" ELSE IF c = "D" THEN "d" ELSE c

\* str.lower()
Lower(text) == [i \in 1..Len(text) |-> LowerChar(text[i])]

\* needle in haystack
Contains(haystack, needle) ==
    \E k \in 0..(Len(haystack) - Len(needle)) :
        \A j \in 1..Len(needle) : haystack[k + j] = needle[j]

\* str.split('_'): the empty text splits into one empty keyword
RECURSIVE Split(_)
Split(text) ==
    LET cuts == {k \in 1..Len(text) : text[k] = "_"}
    IN IF cuts = {} THEN <<text>>
       ELSE LET k == CHOOSE c \in cuts : \A o \in cuts : c <= o
            IN <<SubSeq(text, 1, k - 1)>> \o Split(SubSeq(text, k + 1, Len(text)))

\* [x for x in xs if x in ys] and [x for x in xs if x not in ys]
Present(xs, ys) == SelectSeq(xs, LAMBDA x : \E j \in 1..Len(ys) : ys[j] = x)

Absent(xs, ys) == SelectSeq(xs, LAMBDA x : \A j \in 1..Len(ys) : ys[j] # x)

InList(x, xs) == \E j \in 1..Len(xs) : xs[j] = x

\* the module classes: class attributes supported_databases, required_fields,
\* optional_fields, and whether the class overrides check_database_compatibility;
\* "BaseAnalysisModule" is a subclass that keeps the defaults of the base class
ModuleClasses ==
    [class_name \in {"DataDescribeModule", "TrendAnalysisModule",
                     "YoYComparisonModule", "ParameterSegmenterModule",
                     "BaseAnalysisModule"} |->
        CASE class_name = "DataDescribeModule" ->
                [module_id |-> "data_describe",
                 module_name |-> <<"#", "#", "#", "#">>,
                 description |-> <<"#", "#">>,
                 supported_databases |-> <<"csv", "parquet", "duckdb", "sqlite">>,
                 required_fields |-> <<>>,
                 optional_fields |-> <<>>,
                 overrides_check |-> TRUE]
          [] class_name = "TrendAnalysisModule" ->
                [module_id |-> "trend_analysis",
                 module_name |-> <<"#", "#", "#", "#">>,
                 description |-> <<"#", "#">>,
                 supported_databases |-> <<"duckdb", "sqlite", "csv", "excel">>,
                 required_fields |-> <<"date_field", "value_field">>,
                 optional_fields |-> <<"category_field">>,
                 overrides_check |-> FALSE]
          [] class_name = "YoYComparisonModule" ->
                [module_id |-> "yoy_comparison",
                 module_name |-> <<"#", "#", "#", "#">>,
                 description |-> <<"#", "#">>,
                 supported_databases |-> <<"duckdb", "sqlite", "csv", "excel">>,
                 required_fields |-> <<"date_field", "value_field">>,
                 optional_fields |-> <<"category_field", "region_field">>,
                 overrides_check |-> FALSE]
          [] class_name = "BaseAnalysisModule" ->
                [module_id |-> "base_module",
                 module_name |-> <<"#", "#", "#", "#">>,
                 description |-> <<"#", "#">>,
                 supported_databases |-> <<>>,
                 required_fields |-> <<>>,
                 optional_fields |-> <<>>,
                 overrides_check |-> FALSE]
          [] OTHER ->
                [module_id |-> "param_segmenter",
                 module_name |-> <<"#", "#", "#", "#">>,
                 description |-> <<"#", "#">>,
                 supported_databases |-> <<"duckdb", "sqlite", "csv", "excel">>,
                 required_fields |-> <<>>,
                 optional_fields |-> <<>>,
                 overrides_check |-> FALSE]]

\* the value of db_info.get('fields', []): a list, or None
FieldList(list) == [is_none |-> FALSE, list |-> list]

NoneFields == [is_none |-> TRUE, list |-> <<>>]

\* a compatibility dict
Compatibility(compatible, score, missing_fields, available_fields, reason) ==
    [compatible |-> compatible, score |-> score, missing_fields |-> missing_fields,
     available_fields |-> available_fields, reason |-> reason]

\* the outcome of a call: a returned dict, or an exception
Returned(value) == [raised |-> FALSE, value |-> value]

Raised == [raised |-> TRUE,
           value |-> Compatibility(FALSE, Rat(0, 1), <<>>, <<>>, "exception")]

Unsupported(cls, database_type) ==
    /\ cls.supported_databases # <<>>
    /\ ~InList(database_type, cls.supported_databases)

\* a scorer that gives the base score to a dataset with missing required fields
BaseScoresMissingFields(cls, database_type, available_fields) ==
    IF Unsupported(cls, database_type)
    THEN Returned(Compatibility(FALSE, Rat(0, 1), cls.required_fields, <<>>,
                                "unsupported database type"))
    ELSE IF available_fields.is_none
              /\ (cls.required_fields # <<>> \/ cls.optional_fields # <<>>)
    THEN Raised
    ELSE Returned(Compatibility(Absent(cls.required_fields, available_fields.list) = <<>>,
                                Rat(1, 2),
                                Absent(cls.required_fields, available_fields.list),
                                Present(cls.optional_fields, available_fields.list), ""))

\* a scorer that looks for the first required field only
BaseChecksFirstRequiredField(cls, database_type, available_fields) ==
    IF Unsupported(cls, database_type)
    THEN Returned(Compatibility(FALSE, Rat(0, 1), cls.required_fields, <<>>,
                                "unsupported database type"))
    ELSE IF available_fields.is_none
              /\ (cls.required_fields # <<>> \/ cls.optional_fields # <<>>)
    THEN Raised
    ELSE LET first == IF cls.required_fields = <<>> THEN <<>>
                      ELSE <<cls.required_fields[1]>>
             missing_fields == Absent(first, available_fields.list)
             available_optional == Present(cls.optional_fields, available_fields.list)
             score == IF missing_fields # <<>> THEN Rat(0, 1)
                      ELSE IF cls.optional_fields = <<>> THEN Rat(1, 1)
                      ELSE RatAdd(Rat(1, 2),
                                  RatMul(Rat(1, 2), Rat(Len(available_optional),
                                                        Len(cls.optional_fields))))
         IN Returned(Compatibility(missing_fields = <<>>, score, missing_fields,
                                   available_optional, ""))

\* a scorer that gives the base score when no optional field is declared
BaseScoresBaselineWithoutOptional(cls, database_type, available_fields) ==
    IF Unsupported(cls, database_type)
    THEN Returned(Compatibility(FALSE, Rat(0, 1), cls.required_fields, <<>>,
                                "unsupported database type"))
    ELSE IF available_fields.is_none
              /\ (cls.required_fields # <<>> \/ cls.optional_fields # <<>>)
    THEN Raised
    ELSE LET missing_fields == Absent(cls.required_fields, available_fields.list)
             available_optional == Present(cls.optional_fields, available_fields.list)
             score == IF missing_fields # <<>> THEN Rat(0, 1)
                      ELSE RatAdd(Rat(1, 2),
                                  RatMul(Rat(1, 2),
                                         Rat(Len(available_optional),
                                             IF Len(cls.optional_fields) > 1
                                             THEN Len(cls.optional_fields) ELSE 1)))
         IN Returned(Compatibility(missing_fields = <<>>, score, missing_fields,
                                   available_optional, ""))

\* BaseAnalysisModule.check_database_compatibility
BaseCheckDatabaseCompatibility(cls, database_type, available_fields) ==
    IF Unsupported(cls, database_type)
    THEN Returned(Compatibility(FALSE, Rat(0, 1), cls.required_fields, <<>>,
                                "unsupported database type"))
    ELSE IF available_fields.is_none
              /\ (cls.required_fields # <<>> \/ cls.optional_fields # <<>>)
    THEN \* "field not in None" raises TypeError
         Raised
    ELSE LET missing_fields == Absent(cls.required_fields, available_fields.list)
             available_optional == Present(cls.optional_fields, available_fields.list)
             base_score == Rat(1, 2)
             optional_score ==
                 IF cls.optional_fields # <<>>
                 THEN RatMul(Rat(1, 2), Rat(Len(available_optional),
                                            IF Len(cls.optional_fields) > 1
                                            THEN Len(cls.optional_fields) ELSE 1))
                 ELSE Rat(1, 2)
             score == IF missing_fields # <<>> THEN Rat(0, 1)
                      ELSE RatAdd(base_score, optional_score)
         IN Returned(Compatibility(missing_fields = <<>>, RatMin(score, Rat(1, 1)),
                                   missing_fields, available_optional, ""))

\* DataDescribeModule.check_database_compatibility
DataDescribeCheckDatabaseCompatibility(cls, database_type, available_fields) ==
    IF Unsupported(cls, database_type)
    THEN Returned(Compatibility(FALSE, Rat(0, 1), <<>>, available_fields.list,
                                "unsupported database type"))
    ELSE IF available_fields.is_none
    THEN \* len(None) in the reason raises TypeError
         Raised
    ELSE LET n == Len(available_fields.list)
             field_bonus == RatMin(Rat(1, 5), Rat(n, 100))
             score == IF n > 0 THEN RatAdd(Rat(4, 5), field_bonus) ELSE Rat(1, 2)
         IN Returned(Compatibility(TRUE, RatMin(score, Rat(1, 1)), <<>>,
                                   available_fields.list, "can analyse"))

\* instance.check_database_compatibility(db_type, available_fields)
CheckDatabaseCompatibility(class_name, database_type, available_fields) ==
    LET cls == ModuleClasses[class_name]
    IN IF cls.overrides_check
       THEN DataDescribeCheckDatabaseCompatibility(cls, database_type, available_fields)
       ELSE BaseCheckDatabaseCompatibility(cls, database_type, available_fields)

\* Walker._check_module_database_compatibility; module_instance is the class
\* name of the instance, or "None"
CheckModuleDatabaseCompatibilityOp(module_instance, db_info) ==
    IF module_instance = "None"
    THEN Compatibility(FALSE, Rat(0, 1), <<>>, <<>>, "module instance is None")
    ELSE LET call == CheckDatabaseCompatibility(module_instance, db_info.type,
                                                db_info.fields)
         IN IF call.raised
            THEN Compatibility(FALSE, Rat(0, 1), <<>>, <<>>, "compatibility check failed")
            ELSE call.value

\* one entry of a module's parameter_requirements
Requirement(name, type, required, has_default, default_value) ==
    [name |-> name, type |-> type, required |-> required,
     has_default |-> has_default, default_value |-> default_value]

\* a module config of modules/analysis_config.json
ModuleInfo(module_id, has_module_name, module_name, description, file_path, class_name, parameter_requirements) ==
    [module_id |-> module_id, has_module_name |-> has_module_name,
     module_name |-> module_name, description |-> description,
     file_path |-> file_path, class_name |-> class_name,
     parameter_requirements |-> parameter_requirements]

DataDescribeConfig ==
    ModuleInfo("data_describe", TRUE, <<"D", "a", "t", "a">>, <<"s", "t", "a", "t", "s">>,
               "modules/data_describe_module.py", "DataDescribeModule", <<>>)

TrendAnalysisConfig ==
    ModuleInfo("trend_analysis", TRUE, <<"T", "r", "e", "n", "d">>, <<"t", "i", "m", "e">>,
               "modules/trend_analysis.py", "TrendAnalysisModule",
               << Requirement("smooth", "boolean", TRUE, FALSE, ""),
                  Requirement("date_field", "string", TRUE, FALSE, ""),
                  Requirement("window", "integer", TRUE, TRUE, "3"),
                  Requirement("title", "string", FALSE, TRUE, "trend"),
                  Requirement("detrend", "boolean", TRUE, FALSE, ""),
                  Requirement("log_scale", "boolean", FALSE, FALSE, "") >>)

\* a config without 'module_name'
YoYComparisonConfig ==
    ModuleInfo("yoy_comparison", FALSE, <<>>, <<"y", "o", "y">>,
               "modules/yoy_comparison.py", "YoYComparisonModule", <<>>)

\* a config without 'class_name'
ParamSegmenterConfig ==
    ModuleInfo("param_segmenter", TRUE, <<"s", "e", "g">>, <<>>,
               "modules/param_segmenter.py", "", <<>>)

\* a config without 'module_id'
AnonymousConfig ==
    ModuleInfo("", TRUE, <<"s", "e", "g">>, <<>>,
               "modules/param_segmenter.py", "ParameterSegmenterModule", <<>>)

\* contents of the module configuration file
MetadataFiles ==
    { <<>>,
      <<AnonymousConfig>>,
      <<DataDescribeConfig, TrendAnalysisConfig, YoYComparisonConfig, ParamSegmenterConfig>> }

\* get_module_info() of an instance of the class
ClassInfo(class_name) ==
    ModuleInfo(ModuleClasses[class_name].module_id, TRUE,
               ModuleClasses[class_name].module_name,
               ModuleClasses[class_name].description, "", class_name, <<>>)

\* one entry of available_databases
DbInfo(name, type, path, table_name, fields) ==
    [name |-> name, type |-> type, path |-> path, table_name |-> table_name,
     fields |-> fields]

DefaultFields == <<"sales_volume", "company", "year", "month", "region">>

LocalCsvData == DbInfo("local_csv_data", "csv", "data", "", FieldList(DefaultFields))

LocalParquetData ==
    DbInfo("local_parquet_data", "parquet", "data", "", FieldList(DefaultFields))

SalesTable ==
    DbInfo("sales", "duckdb", "", "sales_table",
           FieldList(<<"date_field", "value_field", "category_field">>))

Workbook ==
    DbInfo("workbook", "excel", "book.xlsx", "",
           FieldList(<<"date_field", "value_field">>))

EmptyCsv == DbInfo("empty_csv", "csv", "empty.csv", "", FieldList(<<>>))

NoFieldsDb == DbInfo("no_fields", "sqlite", "app.db", "", NoneFields)

DocumentStore ==
    DbInfo("documents", "mongodb", "", "", FieldList(<<"date_field", "value_field">>))

\* a table that lacks the first required field of the time-series modules
ValuesTable ==
    DbInfo("values", "sqlite", "app.db", "values_table",
           FieldList(<<"value_field", "region_field", "a", "b">>))

Databases ==
    {LocalCsvData, LocalParquetData, SalesTable, Workbook, EmptyCsv, NoFieldsDb,
     DocumentStore, ValuesTable}

\* Walker._setup_default_databases
DefaultDatabases == <<LocalCsvData, LocalParquetData>>

\* the lists handed to set_available_databases
DatabaseCatalogs ==
    { <<>>, <<EmptyCsv>>, <<Workbook, SalesTable>>, <<SalesTable, Workbook, LocalCsvData>>,
      <<NoFieldsDb, DocumentStore, EmptyCsv>>, <<SalesTable, EmptyCsv, Workbook>>,
      <<ValuesTable, LocalCsvData>> }

\* the files of the modules package
ImportableModuleFiles ==
    {"modules/data_describe_module.py", "modules/trend_analysis.py",
     "modules/yoy_comparison.py", "modules/param_segmenter.py"}

\* dict.update
Merge(base, extra) ==
    [k \in (DOMAIN base) \cup (DOMAIN extra) |->
        IF k \in DOMAIN extra THEN extra[k] ELSE base[k]]

\* a combination loop that doubles the candidates for every boolean parameter
\* that is not supplied, required or not, with a default or not
RECURSIVE CombineLoopDoublesEveryBoolean(_, _, _, _)
CombineLoopDoublesEveryBoolean(param_requirements, base_params, k, combinations) ==
    IF k > Len(param_requirements) THEN combinations
    ELSE LET req == param_requirements[k]
             filled == [j \in 1..Len(combinations) |->
                          DictSet(combinations[j], req.name, req.default_value)]
             doubled == [j \in 1..(2 * Len(combinations)) |->
                          DictSet(combinations[(j + 1) \div 2], req.name,
                                  IF j % 2 = 1 THEN "True" ELSE "False")]
             next == IF req.name \in DOMAIN base_params THEN combinations
                     ELSE IF req.type = "boolean" THEN doubled
                     ELSE IF ~req.required THEN combinations
                     ELSE IF req.has_default THEN filled
                     ELSE combinations
         IN CombineLoopDoublesEveryBoolean(param_requirements, base_params, k + 1, next)

\* Walker._generate_parameter_combinations, from requirement k on
RECURSIVE CombineLoop(_, _, _, _)
CombineLoop(param_requirements, base_params, k, combinations) ==
    IF k > Len(param_requirements) THEN combinations
    ELSE LET req == param_requirements[k]
             filled == [j \in 1..Len(combinations) |->
                          DictSet(combinations[j], req.name, req.default_value)]
             doubled == [j \in 1..(2 * Len(combinations)) |->
                          DictSet(combinations[(j + 1) \div 2], req.name,
                                  IF j % 2 = 1 THEN "True" ELSE "False")]
             next == IF req.name \in DOMAIN base_params THEN combinations
                     ELSE IF ~req.required THEN combinations
                     ELSE IF req.has_default THEN filled
                     ELSE IF req.type = "boolean" THEN doubled
                     ELSE combinations
         IN CombineLoop(param_requirements, base_params, k + 1, next)

\* Walker._generate_parameter_combinations
GenerateParameterCombinations(param_requirements, base_params) ==
    CombineLoop(param_requirements, base_params, 1, <<base_params>>)

\* Walker._generate_parameter_candidates
GenerateParameterCandidates(module_info, intent, db_info) ==
    LET data_source == IF db_info.path # "" THEN db_info.path ELSE db_info.table_name
        base_params == Merge([k \in {"data_source"} |-> data_source], intent.parameters)
    IN IF module_info.parameter_requirements = <<>>
       THEN <<base_params>>
       ELSE GenerateParameterCombinations(module_info.parameter_requirements, base_params)

\* Walker._calculate_intent_match
CalculateIntentMatch(module_info, intent) ==
    LET intent_target == Lower(intent.target)
        module_name == Lower(IF module_info.has_module_name
                             THEN module_info.module_name ELSE <<>>)
        module_desc == Lower(module_info.description)
        keywords == Split(intent_target)
        match_score == Cardinality({k \in 1..Len(keywords) :
                          \/ Contains(module_name, keywords[k])
                          \/ Contains(module_desc, keywords[k])})
    IN RatMin(Rat(match_score, IF Len(keywords) > 1 THEN Len(keywords) ELSE 1),
              Rat(1, 1))

\* Walker._calculate_parameter_completeness
CalculateParameterCompleteness(module_info, params) ==
    LET required_params == SelectSeq(module_info.parameter_requirements,
                                     LAMBDA req : req.required)
        satisfied_count == Cardinality({k \in 1..Len(required_params) :
                              required_params[k].name \in DOMAIN params})
    IN IF required_params = <<>> THEN Rat(1, 1)
       ELSE Rat(satisfied_count, Len(required_params))

\* Walker._calculate_strategy_priority
CalculateStrategyPriority(module_info, intent, compat, params) ==
    IntOfProduct(compat.score, 50)
    + IntOfProduct(CalculateIntentMatch(module_info, intent), 30)
    + IntOfProduct(CalculateParameterCompleteness(module_info, params), 20)

\* Walker._instantiate_module: the instance, or an exception
InstantiateModule(module_info) ==
    IF /\ module_info.class_name # ""
       /\ module_info.file_path \in ImportableModuleFiles
       /\ module_info.class_name \in DOMAIN ModuleClasses
    THEN [raised |-> FALSE, instance |-> module_info.class_name]
    ELSE [raised |-> TRUE, instance |-> "None"]

\* Walker._auto_register_modules, from config k on
RECURSIVE AutoRegisterModules(_, _, _)
AutoRegisterModules(metadata, k, registered) ==
    IF k > Len(metadata) THEN registered
    ELSE AutoRegisterModules(metadata, k + 1,
            IF metadata[k].module_id # ""
            THEN DictSet(registered, metadata[k].module_id,
                         [info |-> metadata[k], instance |-> "None"])
            ELSE registered)

\* Walker.auto_discover_modules with Walker.register_module, from config k on
RECURSIVE AutoDiscoverModules(_, _, _)
AutoDiscoverModules(metadata, k, registered) ==
    IF k > Len(metadata) THEN registered
    ELSE AutoDiscoverModules(metadata, k + 1,
            IF /\ metadata[k].file_path \in ImportableModuleFiles
               /\ metadata[k].class_name \in DOMAIN ModuleClasses
            THEN DictSet(registered, ModuleClasses[metadata[k].class_name].module_id,
                         [info |-> ClassInfo(metadata[k].class_name),
                          instance |-> metadata[k].class_name])
            ELSE registered)

\* a ModuleStrategy
ModuleStrategy(module_id, module_name, module_instance, parameters, database_info, compatibility_score, priority) ==
    [module_id |-> module_id, module_name |-> module_name,
     module_instance |-> module_instance, parameters |-> parameters,
     database_info |-> database_info, compatibility_score |-> compatibility_score,
     priority |-> priority]

\* an acceptance test that ignores the minimum score
ClearsWhenCompatible(compat, min_score) == compat.compatible

\* compatibility['compatible'] and compatibility['score'] >= min_compatibility_score
Clears(compat, min_score) == compat.compatible /\ RatLeq(min_score, compat.score)

\* the arguments of one generate_strategies call, after the defaults are applied
PlanningCall(intent, min_score, dbs) ==
    [intent |-> intent, min_score |-> min_score, dbs |-> dbs,
     required_modules |-> IF intent.modules_needed = <<>> THEN <<"data_describe">>
                          ELSE intent.modules_needed,
     execution_order |-> IF intent.modules_needed = <<>> THEN <<"data_describe">>
                         ELSE intent.execution_order]

\* a pair whose bonus counts the required modules, not the execution order
PairStrategiesCountsRequired(call, i, module_id, module_info, module_instance, db_info, compat) ==
    LET parameter_candidates == GenerateParameterCandidates(module_info, call.intent, db_info)
        order_bonus == IF InList(module_id, call.execution_order)
                       THEN (Len(call.required_modules) - i) * 10 ELSE 0
    IN [k \in 1..Len(parameter_candidates) |->
          ModuleStrategy(module_id, module_info.module_name, module_instance,
                         parameter_candidates[k], db_info, compat.score,
                         CalculateStrategyPriority(module_info, call.intent, compat,
                                                   parameter_candidates[k])
                         + order_bonus)]

\* the strategies of one (module, database) pair, one per parameter candidate
PairStrategies(call, i, module_id, module_info, module_instance, db_info, compat) ==
    LET parameter_candidates == GenerateParameterCandidates(module_info, call.intent, db_info)
        order_bonus == IF InList(module_id, call.execution_order)
                       THEN (Len(call.execution_order) - i) * 10 ELSE 0
    IN [k \in 1..Len(parameter_candidates) |->
          ModuleStrategy(module_id, module_info.module_name, module_instance,
                         parameter_candidates[k], db_info, compat.score,
                         CalculateStrategyPriority(module_info, call.intent, compat,
                                                   parameter_candidates[k])
                         + order_bonus)]

\* the loop over available_databases for required module number i (0-based),
\* from database j on; acc = [strategies, checks, registered, raised]
RECURSIVE DatabaseLoop(_, _, _, _, _, _, _)
DatabaseLoop(call, i, module_id, module_info, module_instance, j, acc) ==
    IF j > Len(call.dbs) \/ acc.raised THEN acc
    ELSE LET db_info == call.dbs[j]
             compat == CheckModuleDatabaseCompatibilityOp(module_instance, db_info)
             checked == [acc EXCEPT !.checks = Append(@,
                            [module_id |-> module_id, database_info |-> db_info,
                             compatibility |-> compat])]
             next ==
                IF ~Clears(compat, call.min_score) THEN checked
                ELSE IF ~module_info.has_module_name
                THEN \* module_info['module_name'] raises KeyError
                     [checked EXCEPT !.raised = TRUE]
                ELSE [checked EXCEPT !.strategies = @ \o
                        PairStrategies(call, i, module_id, module_info,
                                       module_instance, db_info, compat)]
         IN DatabaseLoop(call, i, module_id, module_info, module_instance, j + 1, next)

\* a loop that plans with data_describe in place of an unregistered module
RECURSIVE ModuleLoopDefaultsToDataDescribe(_, _, _)
ModuleLoopDefaultsToDataDescribe(call, n, acc) ==
    IF n > Len(call.required_modules) \/ acc.raised THEN acc
    ELSE LET wanted == call.required_modules[n]
             module_id == IF wanted \notin DOMAIN acc.registered THEN "data_describe"
                          ELSE wanted
         IN IF module_id \notin DOMAIN acc.registered
            THEN ModuleLoopDefaultsToDataDescribe(call, n + 1, acc)
            ELSE LET module_data == acc.registered[module_id]
                     made == InstantiateModule(module_data.info)
                 IN IF module_data.instance = "None" /\ made.raised
                    THEN ModuleLoopDefaultsToDataDescribe(call, n + 1, acc)
                    ELSE LET module_instance ==
                                 IF module_data.instance = "None" THEN made.instance
                                 ELSE module_data.instance
                             kept == [acc EXCEPT !.registered[module_id].instance =
                                                     module_instance]
                         IN ModuleLoopDefaultsToDataDescribe(call, n + 1,
                                DatabaseLoop(call, n - 1, module_id, module_data.info,
                                             module_instance, 1, kept))

\* the loop over required_modules, from position n (1-based) on
RECURSIVE ModuleLoop(_, _, _)
ModuleLoop(call, n, acc) ==
    IF n > Len(call.required_modules) \/ acc.raised THEN acc
    ELSE LET module_id == call.required_modules[n]
         IN IF module_id \notin DOMAIN acc.registered
            THEN ModuleLoop(call, n + 1, acc)
            ELSE LET module_data == acc.registered[module_id]
                     made == InstantiateModule(module_data.info)
                 IN IF module_data.instance = "None" /\ made.raised
                    THEN ModuleLoop(call, n + 1, acc)
                    ELSE LET module_instance ==
                                 IF module_data.instance = "None" THEN made.instance
                                 ELSE module_data.instance
                             kept == [acc EXCEPT !.registered[module_id].instance =
                                                     module_instance]
                         IN ModuleLoop(call, n + 1,
                                DatabaseLoop(call, n - 1, module_id, module_data.info,
                                             module_instance, 1, kept))

\* an insertion that puts a strategy before the strategies of its priority
RECURSIVE InsertBeforeEqual(_, _)
InsertBeforeEqual(sorted, x) ==
    IF sorted = <<>> THEN <<x>>
    ELSE IF Head(sorted).priority > x.priority
         THEN <<Head(sorted)>> \o InsertBeforeEqual(Tail(sorted), x)
         ELSE <<x>> \o sorted

\* strategies.sort(key=lambda x: x.priority, reverse=True): stable
RECURSIVE InsertDescending(_, _)
InsertDescending(sorted, x) ==
    IF sorted = <<>> THEN <<x>>
    ELSE IF Head(sorted).priority >= x.priority
         THEN <<Head(sorted)>> \o InsertDescending(Tail(sorted), x)
         ELSE <<x>> \o sorted

\* a sort that leaves the list in generation order
KeepGenerationOrder(s) == s

RECURSIVE SortDescending(_)
SortDescending(s) ==
    IF s = <<>> THEN <<>>
    ELSE InsertDescending(SortDescending(SubSeq(s, 1, Len(s) - 1)), s[Len(s)])

\* s[:n]
SliceTo(s, n) ==
    IF n >= Len(s) THEN s
    ELSE IF n >= 0 THEN SubSeq(s, 1, n)
    ELSE IF Len(s) + n > 0 THEN SubSeq(s, 1, Len(s) + n) ELSE <<>>

\* Walker.generate_strategies
GenerateStrategiesOp(intent, max, min_score, registered, metadata, dbs) ==
    LET discovered == IF DOMAIN registered = {}
                      THEN AutoDiscoverModules(metadata, 1, registered)
                      ELSE registered
        done == ModuleLoop(PlanningCall(intent, min_score, dbs), 1,
                           [strategies |-> <<>>, checks |-> <<>>,
                            registered |-> discovered, raised |-> FALSE])
    IN [raised |-> done.raised,
        candidates |-> done.strategies,
        checks |-> done.checks,
        registered |-> done.registered,
        returned |-> IF done.raised THEN <<>>
                     ELSE SliceTo(SortDescending(done.strategies), max)]

\* a user_intent dict
Intent(target, parameters, modules_needed, execution_order) ==
    [target |-> target, parameters |-> parameters,
     modules_needed |-> modules_needed, execution_order |-> execution_order]

NoIntent == Intent(<<>>, EmptyDict, <<>>, <<>>)

UserIntents ==
    { NoIntent,
      Intent(<<"t", "r", "e", "n", "d">>, EmptyDict,
             <<"data_describe", "trend_analysis">>, <<"data_describe", "trend_analysis">>),
      Intent(<<"D", "a", "t", "a", "_", "t", "i", "m", "e", "_", "x">>,
             [k \in {"date_field"} |-> "year"],
             <<"trend_analysis", "data_describe">>, <<"data_describe">>),
      Intent(<<"s", "t", "a", "t", "s", "_", "x">>, [k \in {"data_source"} |-> "other.csv"],
             <<"data_describe", "trend_analysis", "data_describe">>, <<>>),
      Intent(<<"y", "o", "y">>, EmptyDict,
             <<"data_describe", "yoy_comparison">>, <<"yoy_comparison">>),
      Intent(<<"s", "e", "g">>, EmptyDict,
             <<"param_segmenter", "no_such_module", "trend_analysis">>,
             <<"no_such_module", "trend_analysis", "param_segmenter">>),
      Intent(<<"t", "r", "e", "n", "d">>, [k \in {"smooth"} |-> "False"],
             <<"trend_analysis">>, <<"trend_analysis">>) }

MinScores == {Rat(0, 1), Rat(1, 2), Rat(9, 10), Rat(1, 1)}

\* Walker.register_module
RegisterModule(class_name) ==
    /\ registered_modules' =
          DictSet(registered_modules, ModuleClasses[class_name].module_id,
                  [info |-> ClassInfo(class_name), instance |-> class_name])
    /\ walker_op' = "register_module"
    /\ UNCHANGED <<execVars, flowVars, modules_metadata, available_databases,
                   user_intent, max_strategies, min_compatibility_score, checks,
                   candidates, returned_strategies, compatibility, check_args>>

\* Walker.set_available_databases
SetAvailableDatabases(databases) ==
    /\ available_databases' = databases
    /\ walker_op' = "set_available_databases"
    /\ UNCHANGED <<execVars, flowVars, modules_metadata, registered_modules,
                   user_intent, max_strategies, min_compatibility_score, checks,
                   candidates, returned_strategies, compatibility, check_args>>

\* Walker.generate_strategies
GenerateStrategies(intent, max, min_score) ==
    LET r == GenerateStrategiesOp(intent, max, min_score, registered_modules,
                                  modules_metadata, available_databases)
    IN /\ user_intent' = intent
       /\ max_strategies' = max
       /\ min_compatibility_score' = min_score
       /\ registered_modules' = r.registered
       /\ checks' = r.checks
       /\ candidates' = r.candidates
       /\ returned_strategies' = r.returned
       /\ walker_op' = IF r.raised THEN "generate_strategies raised"
                       ELSE "generate_strategies"
       /\ UNCHANGED <<execVars, flowVars, modules_metadata, available_databases,
                      compatibility, check_args>>

\* Walker._check_module_database_compatibility
CheckModuleDatabaseCompatibility(module_instance, db_info) ==
    /\ compatibility' = CheckModuleDatabaseCompatibilityOp(module_instance, db_info)
    /\ check_args' = [module_instance |-> module_instance, db_info |-> db_info]
    /\ walker_op' = "check_module_database_compatibility"
    /\ UNCHANGED <<execVars, flowVars, modules_metadata, registered_modules,
                   available_databases, user_intent, max_strategies,
                   min_compatibility_score, checks, candidates, returned_strategies>>

\* Walker.__init__: _load_modules_config, _setup_default_databases
InitWalker ==
    /\ modules_metadata \in MetadataFiles
    /\ registered_modules = AutoRegisterModules(modules_metadata, 1, EmptyDict)
    /\ available_databases = DefaultDatabases
    /\ user_intent = NoIntent
    /\ max_strategies = 5
    /\ min_compatibility_score = Rat(1, 2)
    /\ checks = <<>>
    /\ candidates = <<>>
    /\ returned_strategies = <<>>
    /\ compatibility = Compatibility(FALSE, Rat(0, 1), <<>>, <<>>, "")
    /\ check_args = [module_instance |-> "None", db_info |-> LocalCsvData]
    /\ walker_op = "init"

\* a Walker whose configuration file has no modules
WalkerIdle == InitWalker /\ modules_metadata = <<>>

\* one planning pass: optional registration, optional catalog, then one call
NextWalker ==
    \/ /\ walker_op = "init"
       /\ \E class_name \in DOMAIN ModuleClasses : RegisterModule(class_name)
    \/ /\ walker_op \in {"init", "register_module"}
       /\ \E databases \in DatabaseCatalogs : SetAvailableDatabases(databases)
    \/ /\ walker_op \in {"init", "register_module", "set_available_databases"}
       /\ \E intent \in UserIntents, max \in (-1)..MaxStrategies, min_score \in MinScores :
            GenerateStrategies(intent, max, min_score)
    \/ /\ walker_op \in {"init", "set_available_databases"}
       /\ \E module_instance \in (DOMAIN ModuleClasses) \cup {"None"},
             db_info \in Databases :
            CheckModuleDatabaseCompatibility(module_instance, db_info)

(***************************************************************************)
(* IntentParser (src/agents/intent_parser.py) and the JSON reply of the    *)
(* language model (src/llm/glm.py).                                        *)
(***************************************************************************)

\* the request texts: up to MaxQuestionWords of these words, joined by blanks
QuestionWords ==
    {<<"T", "r", "e", "n", "d">>, <<"D", "a", "t", "a">>, <<"y", "o", "y">>,
     <<"g", "r", "o", "u", "p">>, <<"h", "i">>}

RECURSIVE QuestionsUpTo(_)
QuestionsUpTo(n) ==
    IF n = 0 THEN {<<>>}
    ELSE LET shorter == QuestionsUpTo(n - 1)
         IN shorter \cup {IF q = <<>> THEN w ELSE q \o <<" ">> \o w :
                             q \in shorter, w \in QuestionWords}

Questions == QuestionsUpTo(MaxQuestionWords)

\* the keyword lists of _rule_based_parsing; the request texts hold no CJK
\* character, so the CJK keywords are left out
ComparisonKeywords ==
    <<<<"c", "o", "m", "p", "a", "r", "e">>,
      <<"c", "o", "m", "p", "a", "r", "i", "s", "o", "n">>,
      <<"y", "o", "y">>>>

SegmentationKeywords ==
    <<<<"s", "e", "g", "m", "e", "n", "t">>,
      <<"g", "r", "o", "u", "p">>,
      <<"c", "a", "t", "e", "g", "o", "r", "y">>>>

AnalysisKeywords ==
    <<<<"a", "n", "a", "l", "y", "s", "i", "s">>,
      <<"t", "r", "e", "n", "d">>,
      <<"g", "r", "o", "w", "t", "h">>>>

QueryKeywords ==
    <<<<"d", "a", "t", "a">>,
      <<"s", "h", "o", "w">>,
      <<"l", "i", "s", "t">>,
      <<"s", "a", "l", "e", "s">>,
      <<"p", "e", "r", "f", "o", "r", "m", "a", "n", "c", "e">>>>

\* any(keyword in text for keyword in keywords)
AnyKeywordIn(text, keywords) ==
    \E k \in 1..Len(keywords) : Contains(text, keywords[k])

\* a result of parse_intent, by the keys the callers read
IntentRecord(intent, confidence, reason, need_data_analysis, analysis_type, complexity) ==
    [intent |-> intent, confidence |-> confidence, reason |-> reason,
     need_data_analysis |-> need_data_analysis, analysis_type |-> analysis_type,
     complexity |-> complexity]

\* IntentParser._rule_based_parsing
RuleBasedParsing(user_question) ==
    LET question_lower == Lower(user_question)
    IN IF AnyKeywordIn(question_lower, ComparisonKeywords)
       THEN IntentRecord("data_comparison", Rat(7, 10), "keyword rules", TRUE,
                         "yoy_comparison", "medium")
       ELSE IF AnyKeywordIn(question_lower, SegmentationKeywords)
       THEN IntentRecord("data_segmentation", Rat(7, 10), "keyword rules", TRUE,
                         "segmentation", "medium")
       ELSE IF AnyKeywordIn(question_lower, AnalysisKeywords)
       THEN IntentRecord("data_analysis", Rat(7, 10), "keyword rules", TRUE,
                         "trend_analysis", "medium")
       ELSE IF AnyKeywordIn(question_lower, QueryKeywords)
       THEN IntentRecord("data_query", Rat(7, 10), "keyword rules", TRUE,
                         "statistical_summary", "simple")
       ELSE IntentRecord("general_chat", Rat(7, 10), "keyword rules", FALSE,
                         "none", "simple")

\* IntentParser._get_fallback_result
GetFallbackResult(user_question) ==
    [RuleBasedParsing(user_question) EXCEPT
        !.reason = "llm parsing failed, keyword rules",
        !.confidence = Rat(6, 10)]

\* a JSON object of the language model, by the keys parse_intent reads; a
\* confidence may be a number or a text float() does not accept
LlmObject(keys, intent, number, confidence, need_data_analysis) ==
    [keys |-> keys, intent |-> intent,
     confidence |-> [is_number |-> number, value |-> confidence],
     need_data_analysis |-> need_data_analysis]

\* the dict parse_json_response returns when it has no JSON object
ErrorDict == LlmObject({"error"}, "", TRUE, Rat(0, 1), FALSE)

\* how the language model behaves in one call:
\*   client_fails  get_glm_client raises, there is no client
\*   raises        generate_response raises
\*   no_brace      the reply has no '{' ... '}'
\*   bad_json      json.loads rejects the text between the braces
\*   object        the reply holds the JSON object
LlmReply(kind, object) == [kind |-> kind, object |-> object]

LlmReplies ==
    {LlmReply(kind, ErrorDict) : kind \in {"client_fails", "raises", "no_brace", "bad_json"}}
    \cup {LlmReply("object", o) : o \in
            {LlmObject({"intent", "confidence", "need_data_analysis"},
                       "data_analysis", TRUE, Rat(9, 10), TRUE),
             LlmObject({"intent", "confidence"}, "query_only", TRUE, Rat(9, 10), FALSE),
             LlmObject({}, "", TRUE, Rat(0, 1), FALSE),
             LlmObject({"error", "intent"}, "data_query", TRUE, Rat(0, 1), FALSE),
             LlmObject({"intent", "confidence"}, "data_query", FALSE, Rat(0, 1), FALSE),
             LlmObject({"intent", "confidence"}, "help_request", TRUE, Rat(3, 2), FALSE)}}

\* GLMClient.parse_json_response: both except branches return a dict with
\* the key "error"
ParseJsonResponse(reply) ==
    IF reply.kind \in {"raises", "no_brace", "bad_json"} THEN ErrorDict
    ELSE reply.object

ValidIntents ==
    {"data_query", "data_analysis", "data_comparison", "data_segmentation",
     "general_chat", "help_request"}

\* a _validate_and_normalize_result that normalises a dict with the key
\* "error" like any other
ValidateWithoutErrorCheck(result, user_question) ==
    [raised |-> FALSE,
     value |-> IntentRecord("general_chat", Rat(1, 2), "semantic analysis", FALSE,
                            "none", "simple")]

\* IntentParser._validate_and_normalize_result; float() of a confidence that
\* is no number raises
ValidateAndNormalizeResult(result, user_question) ==
    IF "error" \in result.keys
    THEN [raised |-> FALSE, value |-> RuleBasedParsing(user_question)]
    ELSE IF "confidence" \in result.keys /\ ~result.confidence.is_number
    THEN [raised |-> TRUE, value |-> RuleBasedParsing(user_question)]
    ELSE LET intent == IF "intent" \in result.keys THEN result.intent
                       ELSE "general_chat"
             confidence == IF "confidence" \in result.keys
                           THEN result.confidence.value ELSE Rat(1, 2)
         IN [raised |-> FALSE,
             value |-> IntentRecord(
                 IF intent \in ValidIntents THEN intent ELSE "general_chat",
                 IF RatLeq(Rat(0, 1), confidence) /\ RatLeq(confidence, Rat(1, 1))
                 THEN confidence ELSE Rat(1, 2),
                 "semantic analysis",
                 "need_data_analysis" \in result.keys /\ result.need_data_analysis,
                 "none", "simple")]

\* IntentParser.parse_intent: whatever is raised inside ends in
\* _get_fallback_result
ParseIntentOp(user_question, reply) ==
    IF reply.kind = "client_fails" THEN GetFallbackResult(user_question)
    ELSE LET v == ValidateAndNormalizeResult(ParseJsonResponse(reply), user_question)
         IN IF v.raised THEN GetFallbackResult(user_question) ELSE v.value

\* no parse_intent call yet
NotParsed ==
    [called |-> FALSE, user_question |-> <<>>, reply |-> LlmReply("", ErrorDict),
     parsed_result |-> IntentRecord("", Rat(0, 1), "", FALSE, "", "")]

ParseIntent(user_question, reply) ==
    /\ intent_parse' = [called |-> TRUE, user_question |-> user_question,
                        reply |-> reply,
                        parsed_result |-> ParseIntentOp(user_question, reply)]
    /\ UNCHANGED <<execVars, walkerVars, state, node, visited, flow_op,
                   workflow_graph, router_result>>

NextIntent ==
    \E user_question \in Questions, reply \in LlmReplies :
        ParseIntent(user_question, reply)

(***************************************************************************)
(* The workflow graph (src/core/graph_builder.py) and its router           *)
(* (src/core/router.py).                                                   *)
(***************************************************************************)

\* an intent_result dict: 'intent' may be absent
IntentResult(has_intent, intent, need_data_analysis) ==
    [has_intent |-> has_intent, intent |-> intent,
     need_data_analysis |-> need_data_analysis]

EmptyIntentResult == IntentResult(FALSE, "", FALSE)

\* intent_result.get("intent", "general_chat")
IntentOf(intent_result) ==
    IF intent_result.has_intent THEN intent_result.intent ELSE "general_chat"

\* what the intent node may leave in state["intent_result"]
IntentResults ==
    { EmptyIntentResult,
      IntentResult(TRUE, "query_only", TRUE),
      IntentResult(TRUE, "data_analysis", TRUE),
      IntentResult(TRUE, "data_analysis", FALSE),
      IntentResult(TRUE, "data_query", TRUE),
      IntentResult(TRUE, "general_chat", FALSE),
      IntentResult(FALSE, "", TRUE) }

UserQuestions == {"analyse the sales trend", "hello"}

\* DataChatRouter.create_initial_state; the keys it leaves out are empty
CreateInitialState(user_question) ==
    [user_question |-> user_question,
     intent_result |-> EmptyIntentResult,
     analysis_result |-> <<>>,
     analysis_success |-> FALSE,
     final_response |-> "",
     error_message |-> "",
     walker_strategy |-> [strategies |-> <<>>, reasoning |-> ""],
     execution_plan |-> <<>>,
     execution_results |-> <<>>,
     sql_result |-> ""]

\* a router that sends every request that needs data analysis to the Walker
ShouldUseWalkerByNeed(st) ==
    IF st.intent_result.need_data_analysis THEN "walker_strategy"
    ELSE IF IntentOf(st.intent_result) = "query_only" THEN "sql_agent"
    ELSE "response_generation"

\* GraphBuilder.should_use_walker
ShouldUseWalker(st) ==
    LET intent == IntentOf(st.intent_result)
    IN IF intent = "query_only" THEN "sql_agent"
       ELSE IF intent = "data_analysis" THEN "walker_strategy"
       ELSE "response_generation"

\* the edges build_graph adds: add_conditional_edges and add_edge
NextNode(from, st) ==
    CASE from = "intent_recognition" -> ShouldUseWalker(st)
      [] from = "walker_strategy" -> "execution_planning"
      [] from = "execution_planning" -> "module_execution"
      [] from = "module_execution" -> "response_generation"
      [] from = "sql_agent" -> "response_generation"
      [] from = "response_generation" -> "END"

\* Walker.generate_strategy
GenerateStrategy(question, intent_result, registered, dbs) ==
    IF ~intent_result.need_data_analysis
    THEN [strategies |-> <<>>, reasoning |-> "no data analysis needed"]
    ELSE IF /\ IntentOf(intent_result) \in {"data_analysis", "data_query"}
            /\ "data_describe" \in DOMAIN registered
    THEN [strategies |->
            [i \in 1..Len(dbs) |->
               [module_id |-> "data_describe",
                parameters |-> [k \in {"data_path"} |-> dbs[i].path],
                database_info |-> dbs[i],
                priority |-> 1]],
          reasoning |-> "strategies generated"]
    ELSE [strategies |-> <<>>, reasoning |-> "strategies generated"]

\* the dict process_user_question has not returned yet
NoResult ==
    [execution_mode |-> "", intent |-> EmptyIntentResult,
     data_analysis |-> [executed |-> FALSE, success |-> FALSE, error |-> ""],
     final_response |-> "", has_error |-> FALSE]

\* execute_with_langgraph: the result built from the final state of the graph
\* (it has no "error" key)
LanggraphResult(final_state) ==
    [execution_mode |-> "langgraph", intent |-> final_state.intent_result,
     data_analysis |->
        [executed |-> final_state.intent_result.need_data_analysis,
         success |-> final_state.analysis_success,
         error |-> IF final_state.analysis_success THEN "None"
                   ELSE final_state.error_message],
     final_response |-> final_state.final_response, has_error |-> FALSE]

\* the dict of the except branches of execute_with_langgraph and
\* execute_fallback: it carries the top-level "error" key
ErrorResult(error) ==
    [execution_mode |-> "error", intent |-> IntentResult(TRUE, "error", FALSE),
     data_analysis |-> [executed |-> FALSE, success |-> FALSE, error |-> error],
     final_response |-> "error apology", has_error |-> TRUE]

\* the graph runs the node it stands on and follows the edge out of it; when
\* it arrives at END, invoke returns and execute_with_langgraph builds the
\* result
Advance(from) ==
    /\ workflow_graph = "compiled"
    /\ node = from
    /\ node' = NextNode(from, state')
    /\ visited' = Append(visited, from)
    /\ flow_op' = flow_op
    /\ workflow_graph' = workflow_graph
    /\ intent_parse' = intent_parse
    /\ router_result' = IF NextNode(from, state') = "END" THEN LanggraphResult(state')
                        ELSE router_result

\* GraphBuilder.recognize_intent_node: IntentParser.create_intent_node stores
\* the classified intent in state["intent_result"]
RecognizeIntentNode(intent_result) ==
    /\ state' = [state EXCEPT !.intent_result = intent_result]
    /\ Advance("intent_recognition")
    /\ UNCHANGED <<execVars, walkerVars>>

\* GraphBuilder.walker_strategy_node
WalkerStrategyNode ==
    /\ state' = [state EXCEPT !.walker_strategy =
                    GenerateStrategy(state.user_question, state.intent_result,
                                     registered_modules, available_databases)]
    /\ Advance("walker_strategy")
    /\ UNCHANGED <<execVars, walkerVars>>

\* GraphBuilder.execution_planning_node
ExecutionPlanningNode ==
    LET plan == CreateExecutionPlanOp(state.walker_strategy.strategies, loaded_modules)
    IN /\ state' = [state EXCEPT !.execution_plan = plan]
       /\ execution_plan' = plan
       /\ exec_op' = "create_execution_plan"
       /\ Advance("execution_planning")
       /\ UNCHANGED <<walkerVars, callers, loaded_modules, module_instances, next_serial,
                      got_instance, execution_results, step_conduct, dispatched, invoked,
                      returned_since_reg, created_since_reg, returned_since_drop,
                      created_since_drop>>

\* "\n".join(output for each result with a non-empty output), as its lines
CombinedResult(results) ==
    LET outputs == [i \in 1..Len(results) |-> results[i].output]
    IN SelectSeq(outputs, LAMBDA output : output # "")

\* a verdict that one successful step is enough for
AnySucceeded(results) == \E i \in 1..Len(results) : results[i].success

\* all(result.get("success", False) for result in execution_results)
AllSucceeded(results) == \A i \in 1..Len(results) : results[i].success

\* GraphBuilder.module_execution_node
ModuleExecutionNode(conduct) ==
    LET r == ExecutePlanOp(state.execution_plan, conduct, module_instances,
                           loaded_modules, next_serial)
        fresh == (next_serial + 1)..r.serial
    IN /\ r.serial <= MaxInstances
       /\ state' = [state EXCEPT
                      !.execution_results = r.results,
                      !.analysis_success = AllSucceeded(r.results),
                      !.analysis_result = CombinedResult(r.results)]
       /\ execution_results' = r.results
       /\ dispatched' = r.dispatched
       /\ invoked' = r.invoked
       /\ step_conduct' = conduct
       /\ module_instances' = r.insts
       /\ next_serial' = r.serial
       /\ returned_since_reg' = NoteAll(returned_since_reg, r.returned, 1..r.serial)
       /\ created_since_reg' = NoteAll(created_since_reg, r.returned, fresh)
       /\ returned_since_drop' = NoteAll(returned_since_drop, r.returned, 1..r.serial)
       /\ created_since_drop' = NoteAll(created_since_drop, r.returned, fresh)
       /\ exec_op' = "execute_plan"
       /\ Advance("module_execution")
       /\ UNCHANGED <<walkerVars, callers, loaded_modules, got_instance, execution_plan>>

\* the business modules _identify_business_module chooses between
BusinessModules == {"sales_query", "data_describe", "general"}

\* how the query behind sql_agent_node ends
QueryOutcomes == {"data", "no_data", "failed", "raised"}

\* GraphBuilder.sql_agent_node with _process_query_result
SqlAgentNode(module_name, outcome) ==
    /\ state' =
         CASE outcome = "data" ->
                [state EXCEPT !.sql_result = "summary and records",
                              !.analysis_result = <<"query result">>,
                              !.analysis_success = TRUE,
                              !.execution_results =
                                  <<[module |-> module_name, success |-> TRUE]>>]
           [] outcome = "no_data" ->
                [state EXCEPT !.sql_result = "summary",
                              !.analysis_success = TRUE,
                              !.execution_results =
                                  <<[module |-> module_name, success |-> TRUE]>>]
           [] outcome = "failed" ->
                [state EXCEPT !.sql_result = "query failed",
                              !.analysis_success = FALSE,
                              !.error_message = "module failed",
                              !.execution_results =
                                  <<[module |-> module_name, success |-> FALSE]>>]
           [] OTHER ->
                [state EXCEPT !.sql_result = "query failed",
                              !.analysis_success = FALSE,
                              !.error_message = "sql query raised"]
    /\ Advance("sql_agent")
    /\ UNCHANGED <<execVars, walkerVars>>

\* how the language model answers: it answers, it raises once, it keeps raising
LlmConducts == {"ok", "raises_once", "raises"}

\* GraphBuilder.response_generation_node
ResponseGenerationNode(llm) ==
    LET intent == IntentOf(state.intent_result)
        asks_llm == \/ /\ intent = "data_analysis"
                       /\ state.analysis_success
                       /\ state.analysis_result # <<>>
                    \/ /\ intent # "query_only"
                       /\ intent \in {"general_chat", "general_conversation"}
        response ==
            IF intent = "data_analysis" /\ state.analysis_success
                  /\ state.analysis_result # <<>>
            THEN "analysis explanation"
            ELSE IF intent = "query_only"
            THEN (IF state.sql_result # "" THEN state.sql_result ELSE "no query result")
            ELSE IF intent \in {"general_chat", "general_conversation"}
            THEN "chat reply"
            ELSE "cannot understand"
    IN /\ state' =
            IF asks_llm /\ llm = "raises_once"
            THEN [state EXCEPT !.final_response = "error reply",
                               !.error_message = "llm raised"]
            ELSE IF asks_llm /\ llm = "raises"
            THEN [state EXCEPT !.final_response = "error apology",
                               !.error_message = "llm raised"]
            ELSE [state EXCEPT !.final_response = response]
       /\ Advance("response_generation")
       /\ UNCHANGED <<execVars, walkerVars>>

\* router.continue_walker_analysis(result, user_feedback): DataChatRouter has
\* no such attribute, the call raises AttributeError and nothing is resumed
ContinueWalkerAnalysis(continue_analysis) ==
    /\ node = "END"
    /\ flow_op = "execute_with_langgraph"
    /\ flow_op' = IF continue_analysis THEN "continue_walker_analysis (continue)"
                   ELSE "continue_walker_analysis (stop)"
    /\ UNCHANGED <<execVars, walkerVars, state, node, visited, workflow_graph, router_result,
                   intent_parse>>

\* DataChatRouter.execute_fallback, called by process_user_question when
\* build_graph returned None: recognize_intent_node runs, then
\* self.graph_builder.should_analyze_data raises AttributeError (GraphBuilder
\* has no such method) and the except branch returns the error dict
ExecuteFallback(intent_result) ==
    /\ workflow_graph = "None"
    /\ flow_op = "process_user_question"
    /\ state' = [state EXCEPT !.intent_result = intent_result]
    /\ router_result' = ErrorResult("fallback failed")
    /\ flow_op' = "execute_fallback"
    /\ UNCHANGED <<execVars, walkerVars, node, visited, workflow_graph, intent_parse>>

\* DataChatRouter.process_user_question: with a compiled graph it calls
\* execute_with_langgraph, which stands at the entry point with the initial
\* state; without one it is about to call execute_fallback
InitFlow ==
    /\ state \in {CreateInitialState(user_question) : user_question \in UserQuestions}
    /\ node = "intent_recognition"
    /\ visited = <<>>
    /\ workflow_graph \in {"compiled", "None"}
    /\ flow_op = IF workflow_graph = "compiled" THEN "execute_with_langgraph"
                 ELSE "process_user_question"
    /\ router_result = NoResult
    /\ intent_parse = NotParsed

\* a router that has not been asked anything
FlowIdle == InitFlow /\ state.user_question = "hello" /\ workflow_graph = "compiled"

NextFlow ==
    \/ \E intent_result \in IntentResults : RecognizeIntentNode(intent_result)
    \/ WalkerStrategyNode
    \/ ExecutionPlanningNode
    \/ \E conduct \in [1..Len(state.execution_plan) -> Conducts] :
          ModuleExecutionNode(conduct)
    \/ \E module_name \in BusinessModules, outcome \in QueryOutcomes :
          SqlAgentNode(module_name, outcome)
    \/ \E llm \in LlmConducts : ResponseGenerationNode(llm)
    \/ \E continue_analysis \in BOOLEAN : ContinueWalkerAnalysis(continue_analysis)
    \/ \E intent_result \in IntentResults : ExecuteFallback(intent_result)

\* the dispatcher, the registry and the planner, each on its own
InitSpecExec == InitDispatch /\ WalkerIdle /\ FlowIdle

SpecExec == InitSpecExec /\ [][NextDispatch]_vars

InitSpecRegistry == InitExec /\ WalkerIdle /\ FlowIdle

SpecRegistry == InitSpecRegistry /\ [][NextRegistry]_vars

InitSpecWalker == InitExec /\ InitWalker /\ FlowIdle

SpecWalker == InitSpecWalker /\ [][NextWalker]_vars

\* one request through the compiled graph
InitSpecFlow == InitDispatch /\ InitWalker /\ InitFlow

SpecFlow == InitSpecFlow /\ [][NextFlow]_vars

\* parse_intent calls on a parser of its own
InitSpecIntent == InitExec /\ WalkerIdle /\ FlowIdle

SpecIntent == InitSpecIntent /\ [][NextIntent]_vars

\* two threads on the executor of one application
InitSpecCallers == InitDispatch /\ WalkerIdle /\ FlowIdle

SpecCallers == InitSpecCallers /\ [][NextCallers]_vars

(***************************************************************************)
(* Claims about the dispatcher (SpecExec) and the registry (SpecRegistry). *)
(***************************************************************************)

\* C1: execute_plan returns exactly one result per plan step, in plan order:
\* result i carries the step_id and the module_id of step i, whatever the
\* steps did (success, failed validation, missing module, exception).
C1_OneResultPerStep ==
    exec_op = "execute_plan" =>
        /\ Len(execution_results) = Len(execution_plan)
        /\ \A i \in 1..Len(execution_plan) :
            /\ execution_results[i].step_id = execution_plan[i].step_id
            /\ execution_results[i].module_id = execution_plan[i].module_id

\* a dispatched 3-step plan: step 1 fails validation, the module of step 2 is
\* no longer loaded, the module of step 3 returns no dict (execute_plan's
\* own except branch)
C1_Witness ==
    /\ exec_op = "execute_plan"
    /\ Len(execution_plan) = 3
    /\ step_conduct[1] = "invalid"
    /\ execution_plan[2].module_id \notin DOMAIN loaded_modules
    /\ step_conduct[3] = "execute_none"
    /\ execution_results[3].error = "attribute error"

\* what step i of the dispatched plan does by itself: its module is loaded,
\* its parameters hold what prepare_data asks for and the module behaves,
\* an instance being cached by an earlier step or constructed now
OwnOutcome(i) ==
    LET m == execution_plan[i].module_id
        cached == \E j \in 1..(i - 1) :
                    /\ execution_plan[j].module_id = m
                    /\ step_conduct[j] # "ctor_throws"
    IN /\ m \in DOMAIN loaded_modules
       /\ ~PrepareDataRaises(loaded_modules[m], execution_plan[i].parameters)
       /\ \/ step_conduct[i] = "ok"
          \/ step_conduct[i] = "ctor_throws" /\ cached

\* C2: a failed step never aborts the plan: every step is handed to
\* execute_module, in plan order, and the success flag of each result is the
\* outcome of that step alone.
C2_LaterStepsStillDispatched ==
    exec_op = "execute_plan" =>
        /\ dispatched = [i \in 1..Len(execution_plan) |-> execution_plan[i].module_id]
        /\ Len(execution_results) = Len(execution_plan)
        /\ \A i \in 1..Len(execution_plan) :
            execution_results[i].success = OwnOutcome(i)

\* a 3-step plan whose step 2 raises: results 1 and 3 are successes
C2_Witness ==
    /\ exec_op = "execute_plan"
    /\ Len(execution_plan) = 3
    /\ step_conduct[2] = "execute_throws"
    /\ execution_results[1].success
    /\ ~execution_results[2].success
    /\ execution_results[3].success

\* C5 as stated: between two registrations or reloads of an id, every get of
\* the id returns the same instance and the id is constructed at most once.
C5_SameInstanceSinceRegistration ==
    \A id \in ExecModuleIds :
        /\ Cardinality(returned_since_reg[id]) <= 1
        /\ Cardinality(created_since_reg[id]) <= 1

\* C5, amended: between two events that register or reload the id or clear
\* the instance cache (clear_instances), every get of the id that returns an
\* instance returns the same one, and the id is constructed at most once.
C5_SameInstanceUntilDropped ==
    \A id \in ExecModuleIds :
        /\ Cardinality(returned_since_drop[id]) <= 1
        /\ Cardinality(created_since_drop[id]) <= 1

\* a get answered from the cache with the instance an earlier get constructed
C5_Witness ==
    /\ exec_op = "get_module_instance (cached)"
    /\ got_instance # NoInstance
    /\ \E id \in ExecModuleIds :
        /\ id \in DOMAIN module_instances
        /\ module_instances[id] = got_instance
        /\ created_since_drop[id] = {got_instance.serial}
        /\ returned_since_drop[id] = {got_instance.serial}

(***************************************************************************)
(* Claims about the planner and the scorer (SpecWalker).                   *)
(***************************************************************************)

\* number of strategies of priority p in a list
CountAt(list, p) == Cardinality({i \in 1..Len(list) : list[i].priority = p})

\* C3: for max_strategies >= 0 the list generate_strategies returns has
\* non-increasing priority, at most max_strategies entries, and is a prefix of
\* the sorted candidates: it is made of candidates of the call, as many as
\* fit, and no candidate left out has a higher priority than a returned one.
C3_SortedPrefix ==
    (walker_op = "generate_strategies" /\ max_strategies >= 0) =>
        /\ \A i, j \in 1..Len(returned_strategies) :
              i < j => returned_strategies[i].priority >= returned_strategies[j].priority
        /\ Len(returned_strategies) <= max_strategies
        /\ Len(returned_strategies) =
              IF max_strategies < Len(candidates) THEN max_strategies ELSE Len(candidates)
        /\ \A i \in 1..Len(returned_strategies) :
              \E k \in 1..Len(candidates) : candidates[k] = returned_strategies[i]
        /\ \A k \in 1..Len(candidates) :
              LET p == candidates[k].priority
              IN /\ CountAt(returned_strategies, p) <= CountAt(candidates, p)
                 /\ CountAt(returned_strategies, p) < CountAt(candidates, p) =>
                       \A i \in 1..Len(returned_strategies) :
                           returned_strategies[i].priority >= p

\* a call that had to reorder its candidates and to cut the list
C3_Witness ==
    /\ walker_op = "generate_strategies"
    /\ max_strategies >= 2
    /\ Len(candidates) > max_strategies
    /\ Len(returned_strategies) = max_strategies
    /\ \E i, j \in 1..Len(candidates) :
          i < j /\ candidates[i].priority < candidates[j].priority

WellFormedCompatibility(compat) ==
    /\ RatLeq(Rat(0, 1), compat.score)
    /\ RatLeq(compat.score, Rat(1, 1))
    /\ ~compat.compatible => compat.score = Rat(0, 1)

\* C4: every compatibility result has 0 <= score <= 1, and score = 0 when it
\* is not compatible: the results of the checks generate_strategies makes and
\* of a direct check, including a None instance and a check that raises.
C4_ScoreRange ==
    /\ WellFormedCompatibility(compatibility)
    /\ \A k \in 1..Len(checks) : WellFormedCompatibility(checks[k].compatibility)

\* a call whose checks met a check that raised, a dataset with missing
\* required fields and a compatible dataset scored strictly between 0 and 1
C4_Witness ==
    /\ walker_op = "generate_strategies"
    /\ \E a, b, c \in 1..Len(checks) :
          /\ checks[a].compatibility.reason = "compatibility check failed"
          /\ checks[b].compatibility.missing_fields # <<>>
          /\ ~checks[b].compatibility.compatible
          /\ checks[b].compatibility.reason = ""
          /\ checks[c].compatibility.compatible
          /\ checks[c].compatibility.score = Rat(1, 2)

\* C10: every returned strategy stems from a (module, database) pair whose
\* check was compatible with score >= min_compatibility_score, and a call in
\* which no pair clears the minimum returns the empty list and does not raise.
C10_OnlyClearingPairs ==
    /\ walker_op = "generate_strategies" =>
          \A i \in 1..Len(returned_strategies) :
             LET s == returned_strategies[i]
                 OfPair(k) == /\ checks[k].module_id = s.module_id
                              /\ checks[k].database_info = s.database_info
             IN /\ \E k \in 1..Len(checks) : OfPair(k)
                /\ \A k \in 1..Len(checks) :
                      OfPair(k) =>
                         /\ checks[k].compatibility.compatible
                         /\ RatLeq(min_compatibility_score, checks[k].compatibility.score)
                         /\ s.compatibility_score = checks[k].compatibility.score
    /\ ( /\ walker_op \in {"generate_strategies", "generate_strategies raised"}
         /\ \A k \in 1..Len(checks) :
               ~ ( /\ checks[k].compatibility.compatible
                   /\ RatLeq(min_compatibility_score, checks[k].compatibility.score) ) )
       => (walker_op = "generate_strategies" /\ returned_strategies = <<>>)

\* minimum 0.9 when the only pair scores 0.5: the empty list
C10_Witness ==
    /\ walker_op = "generate_strategies"
    /\ min_compatibility_score = Rat(9, 10)
    /\ Len(checks) = 1
    /\ checks[1].compatibility.compatible
    /\ checks[1].compatibility.score = Rat(1, 2)
    /\ returned_strategies = <<>>

(***************************************************************************)
(* Claims about the workflow graph (SpecFlow).                             *)
(***************************************************************************)

\* the node the graph went to after the k-th node it ran
Successor(k) == IF k < Len(visited) THEN visited[k + 1] ELSE node

\* C6: a run whose feedback sets continue_analysis to false stands at the
\* terminal state, reached by the one transition out of the feedback stage.
C6_TerminalFollowsFeedback ==
    flow_op = "continue_walker_analysis (stop)" =>
        /\ node = "END"
        /\ visited # <<>>
        /\ visited[Len(visited)] = "user_feedback"

\* C7: continuing an analysis after feedback with continue_analysis true
\* enters the strategy stage again, with the execution results and the
\* combined result of the earlier pass cleared.
C7_ContinueReentersStrategy ==
    ( /\ flow_op = "continue_walker_analysis (continue)"
      /\ \E k \in 1..Len(visited) : visited[k] = "walker_strategy" ) =>
        /\ node = "walker_strategy"
        /\ state.execution_results = <<>>
        /\ state.analysis_result = <<>>

C9_FixedStageGraph ==
    \A k \in 1..Len(visited) :
        /\ visited[k] = "walker_strategy" => Successor(k) = "execution_planning"
        /\ visited[k] = "execution_planning" => Successor(k) = "module_execution"
        /\ visited[k] = "module_execution" => Successor(k) = "summary_generation"
        /\ visited[k] = "summary_generation" => Successor(k) = "response_generation"
        /\ visited[k] = "sql_agent" => Successor(k) = "response_generation"
        /\ visited[k] = "response_generation" => Successor(k) = "user_feedback"

(***************************************************************************)
(* Claims about the default scorer (SpecWalker).                           *)
(***************************************************************************)

\* the last operation was a direct check that the scorer of the instance
\* answered: the wrapper met neither a None instance nor an exception
ScorerAnswered ==
    /\ walker_op = "check_module_database_compatibility"
    /\ check_args.module_instance # "None"
    /\ compatibility.reason # "compatibility check failed"

\* the dataset kind is supported by the class, or the class declares no kinds
KindSupported(cls, db_info) ==
    cls.supported_databases = <<>> \/ InList(db_info.type, cls.supported_databases)

\* C11: the scorer returns compatible exactly when the dataset kind is
\* supported (or the class declares no kinds) and every required field is
\* among the dataset's fields; when the kind is supported, missing_fields is
\* the list of the required fields absent from the dataset, in declaration
\* order.
C11_CompatibleIffSupportedAndComplete ==
    ScorerAnswered =>
        LET cls == ModuleClasses[check_args.module_instance]
            db_info == check_args.db_info
            absent == Absent(cls.required_fields, db_info.fields.list)
        IN /\ compatibility.compatible <=>
                 (KindSupported(cls, db_info) /\ absent = <<>>)
           /\ KindSupported(cls, db_info) => compatibility.missing_fields = absent

\* required date_field and value_field against a table that has value_field
\* but no date_field: not compatible, missing_fields is the one field
C11_Witness ==
    /\ ScorerAnswered
    /\ check_args.module_instance = "TrendAnalysisModule"
    /\ check_args.db_info = ValuesTable
    /\ ~compatibility.compatible
    /\ compatibility.missing_fields = <<"date_field">>

\* the default scorer answered the direct check with a compatible result
DefaultScorerCompatible ==
    /\ ScorerAnswered
    /\ ~ModuleClasses[check_args.module_instance].overrides_check
    /\ compatibility.compatible

\* 0.5 + 0.5 * (declared optional fields present / max(declared optional fields, 1))
OptionalCoverageScore(cls, db_info) ==
    LET present == Present(cls.optional_fields, db_info.fields.list)
        declared == IF Len(cls.optional_fields) > 1 THEN Len(cls.optional_fields) ELSE 1
    IN RatAdd(Rat(1, 2), RatMul(Rat(1, 2), Rat(Len(present), declared)))

\* C12 as stated: for every compatible pair the default scorer returns
\* 0.5 + 0.5 * (optional fields present / max(optional fields declared, 1)),
\* so a class that declares no optional fields scores exactly 0.5.
C12_ScoreIsOptionalCoverage ==
    DefaultScorerCompatible =>
        compatibility.score =
            OptionalCoverageScore(ModuleClasses[check_args.module_instance],
                                  check_args.db_info)

\* C12, amended: for every compatible pair the default scorer returns
\* 0.5 + 0.5 * (optional fields present / optional fields declared) when the
\* class declares at least one optional field, and exactly 1.0 when it
\* declares none.
C12_ScoreIsOptionalCoverageOrFull ==
    DefaultScorerCompatible =>
        LET cls == ModuleClasses[check_args.module_instance]
        IN compatibility.score =
              IF cls.optional_fields = <<>> THEN Rat(1, 1)
              ELSE OptionalCoverageScore(cls, check_args.db_info)

\* a class with no required and no optional fields, checked against a table
\* of a supported kind: compatible with score 1.0
C12_Witness ==
    /\ DefaultScorerCompatible
    /\ check_args.module_instance = "ParameterSegmenterModule"
    /\ check_args.db_info = SalesTable
    /\ compatibility.score = Rat(1, 1)

(***************************************************************************)
(* Claims about a lookup of an id that is not registered (SpecWalker for   *)
(* the planner, SpecExec for the dispatcher).                              *)
(***************************************************************************)

\* the module ids the last generate_strategies call asked for
RequiredModules ==
    PlanningCall(user_intent, min_compatibility_score, available_databases).required_modules

C14_NoInstanceOfEarlierRegistration ==
    \A id \in ExecModuleIds : returned_since_reg[id] \subseteq created_since_reg[id]

\* C14, amended: reload_module(id, config) drops the cached instance of id,
\* and a get of an id that has no cached instance returns None or an instance
\* constructed by that very call; a repeated load_module_from_config is not
\* required to drop anything.
C14_ReloadDropsInstance ==
    [][ /\ exec_op' = "reload_module" =>
            \A id \in DOMAIN module_instances', module_config \in ModuleConfigs :
                ~ReloadModule(id, module_config)
        /\ exec_op' = "get_module_instance" =>
            \/ got_instance' = NoInstance
            \/ /\ got_instance'.serial = next_serial'
               /\ next_serial' = next_serial + 1 ]_vars

\* reload_module has dropped the instance the last get returned, while the
\* cache still holds an instance of another id
C14_Witness ==
    /\ exec_op = "reload_module"
    /\ got_instance # NoInstance
    /\ module_instances # EmptyDict
    /\ \A id \in DOMAIN module_instances : module_instances[id] # got_instance

(***************************************************************************)
(* Claims about parameter validation (SpecExec).                           *)
(***************************************************************************)

\* the class whose methods the dispatch of step i called, "None" if the step
\* got no instance
StepClass(i) ==
    IF invoked[i] = <<>> THEN "None"
    ELSE module_instances[execution_plan[i].module_id].cls

\* step i got an instance whose class declares a required parameter that the
\* parameters of the step do not hold
LacksRequiredParameter(i) ==
    /\ invoked[i] # <<>>
    /\ \E name \in RequiredParameters(StepClass(i)) :
            name \notin DOMAIN execution_plan[i].parameters

\* C15: a dispatched step that lacks a required parameter fails parameter
\* validation: its result is a failure with the validation error, none of
\* prepare_data, run and summarize was called for it, and the steps behind
\* it were dispatched all the same.
C15_MissingParameterFailsValidation ==
    exec_op = "execute_plan" =>
        \A i \in 1..Len(execution_plan) :
            LacksRequiredParameter(i) =>
                /\ Len(execution_results) = Len(execution_plan)
                /\ ~execution_results[i].success
                /\ execution_results[i].error = "parameter validation failed"
                /\ \A k \in 1..Len(invoked[i]) :
                        invoked[i][k] \notin {"prepare_data", "run", "summarize"}

(***************************************************************************)
(* Claims about the result of a request (SpecFlow).                        *)
(***************************************************************************)

\* the workflow was entered: the graph has run a node, or execute_fallback
\* has run recognize_intent_node
WorkflowEntered == visited # <<>> \/ flow_op = "execute_fallback"

\* C16: process_user_question returns a result that carries the top-level
\* error only if the workflow could not be entered at all; a request whose
\* workflow was entered is driven to the end of the workflow and its result
\* has no top-level error, whatever its capabilities and steps did.
C16_ErrorOnlyWhenNotEntered ==
    router_result # NoResult =>
        /\ router_result.has_error => ~WorkflowEntered
        /\ ~router_result.has_error => node = "END"

(***************************************************************************)
(* Claims about intent classification (SpecIntent).                        *)
(***************************************************************************)

\* the language model call failed: no client, the call raised, or the reply
\* holds no parseable JSON
LlmFailed == intent_parse.reply.kind \in {"client_fails", "raises", "no_brace", "bad_json"}

\* C17: when the language model call raises or its reply is no parseable
\* JSON, parse_intent returns what the keyword rules say about the request
\* text: the intent, the need for analysis, the analysis type and the
\* complexity are those of _rule_based_parsing, a function of the text alone.
C17_LlmFailureFallsBackToRules ==
    (intent_parse.called /\ LlmFailed) =>
        LET rules == RuleBasedParsing(intent_parse.user_question)
            parsed_result == intent_parse.parsed_result
        IN /\ parsed_result.intent = rules.intent
           /\ parsed_result.need_data_analysis = rules.need_data_analysis
           /\ parsed_result.analysis_type = rules.analysis_type
           /\ parsed_result.complexity = rules.complexity
           /\ parsed_result.reason \in {"keyword rules", "llm parsing failed, keyword rules"}

\* the reply to "Trend hi" was no JSON: the rules found "trend" in the
\* lowered text and answered data_analysis
C17_Witness ==
    /\ intent_parse.called
    /\ intent_parse.reply.kind = "bad_json"
    /\ intent_parse.user_question = <<"T", "r", "e", "n", "d", " ", "h", "i">>
    /\ intent_parse.parsed_result.intent = "data_analysis"
    /\ intent_parse.parsed_result.need_data_analysis

(***************************************************************************)
(* Claims about the response after a partial failure (SpecFlow).           *)
(***************************************************************************)

\* the request ran its plan: some steps succeeded, at least one failed
PartialFailure ==
    /\ \E k \in 1..Len(visited) : visited[k] = "module_execution"
    /\ \E i \in 1..Len(state.execution_results) : state.execution_results[i].success
    /\ \E i \in 1..Len(state.execution_results) : ~state.execution_results[i].success

\* C18: after a partial failure the request is not aborted: it ends with a
\* result without the top-level error whose final response is the one built
\* from the combined outputs of the steps.
C18_PartialFailureSummarised ==
    (node = "END" /\ PartialFailure) =>
        /\ ~router_result.has_error
        /\ state.final_response = "analysis explanation"
        /\ router_result.final_response = state.final_response

(***************************************************************************)
(* Claims about the order of the results (SpecExec) and of the strategies  *)
(* (SpecWalker).                                                           *)
(***************************************************************************)

\* C19: the results execute_plan returns for a plan of create_execution_plan
\* are in step_id order: the step_ids of consecutive results ascend strictly,
\* whatever the steps did.
C19_ResultsInStepIdOrder ==
    exec_op = "execute_plan" =>
        \A i \in 1..(Len(execution_results) - 1) :
            execution_results[i].step_id < execution_results[i + 1].step_id

\* position of a module in the registered_modules dict: the modules of the
\* configuration file in file order, then a module added by register_module
RegistrationRank(module_id) ==
    LET at == {k \in 1..Len(modules_metadata) : modules_metadata[k].module_id = module_id}
    IN IF at = {} THEN Len(modules_metadata) + 1
       ELSE CHOOSE k \in at : \A other \in at : k <= other

\* the strategies of priority p of a list, in the order of the list
AtPriority(list, p) == SelectSeq(list, LAMBDA s : s.priority = p)

IsPrefix(short, long) ==
    Len(short) <= Len(long) /\ short = SubSeq(long, 1, Len(short))

\* C20 as stated: among returned strategies of equal priority the one with the
\* higher compatibility_score comes first, and among strategies equal in
\* priority and score the one of the module registered first comes first.
C20_TiesByScoreThenRegistration ==
    walker_op = "generate_strategies" =>
        \A i, j \in 1..Len(returned_strategies) :
            (i < j /\ returned_strategies[i].priority = returned_strategies[j].priority) =>
                /\ RatLeq(returned_strategies[j].compatibility_score,
                          returned_strategies[i].compatibility_score)
                /\ returned_strategies[i].compatibility_score =
                      returned_strategies[j].compatibility_score =>
                      RegistrationRank(returned_strategies[i].module_id) <=
                          RegistrationRank(returned_strategies[j].module_id)

\* C20: among returned strategies of equal priority the order is the order
\* in which generate_strategies made them (required modules in the order of
\* the intent, then available_databases in list order): for every priority
\* the returned strategies of that priority are the first ones the call made,
\* in the order it made them. The compatibility_score and the registration
\* order have no part in the order.
C20_TiesKeepGenerationOrder ==
    walker_op = "generate_strategies" =>
        \A i \in 1..Len(returned_strategies) :
            IsPrefix(AtPriority(returned_strategies, returned_strategies[i].priority),
                     AtPriority(candidates, returned_strategies[i].priority))

\* a call that returns two strategies of one priority, the one with the
\* lower score first
C20_Witness ==
    /\ walker_op = "generate_strategies"
    /\ \E i, j \in 1..Len(returned_strategies) :
          /\ i < j
          /\ returned_strategies[i].priority = returned_strategies[j].priority
          /\ ~RatLeq(returned_strategies[j].compatibility_score,
                     returned_strategies[i].compatibility_score)

(***************************************************************************)
(* Claims about the verdict of the execution stage (SpecFlow).             *)
(***************************************************************************)

\* the execution stage has run
ExecutionStageDone ==
    \E k \in 1..Len(visited) : visited[k] = "module_execution"

\* C21: after the execution stage analysis_success is the conjunction of the
\* success flags of the step results execute_plan returned; what
\* execute_plan returned is the list of step results and nothing else, the
\* verdict is made by module_execution_node.
C21_SuccessIsConjunction ==
    ExecutionStageDone =>
        /\ state.execution_results = execution_results
        /\ Len(execution_results) = Len(state.execution_plan)
        /\ \A i \in 1..Len(execution_results) :
              DOMAIN execution_results[i] =
                  {"step_id", "module_id", "success", "output", "error"}
        /\ state.analysis_success =
              (\A i \in 1..Len(execution_results) : execution_results[i].success)

\* a plan of two steps, one of which failed: the verdict is a failure
C21_Witness ==
    /\ ExecutionStageDone
    /\ Len(execution_results) = 2
    /\ execution_results[1].success
    /\ ~execution_results[2].success
    /\ ~state.analysis_success

(***************************************************************************)
(* Claims about two threads on one executor (SpecCallers).                 *)
(***************************************************************************)

\* C22: lazy instantiation is at-most-once per id also when the steps of two
\* callers interleave: two callers that got an instance of the same id got
\* the same instance, and the class of an id is constructed at most once.
C22_AtMostOnceUnderConcurrency ==
    /\ \A c1, c2 \in Callers :
          (/\ callers[c1].at = "returned" /\ callers[c2].at = "returned"
           /\ callers[c1].module_id = callers[c2].module_id
           /\ callers[c1].instance # NoInstance /\ callers[c2].instance # NoInstance)
          => callers[c1].instance = callers[c2].instance
    /\ \A id \in ExecModuleIds : Cardinality(created_since_reg[id]) <= 1

(***************************************************************************)
(* Claims about create_execution_plan (SpecExec).                          *)
(***************************************************************************)

\* positions of the strategies whose module is loaded
Retained(strategies, loaded) ==
    {i \in 1..Len(strategies) : strategies[i].module_id \in DOMAIN loaded}

\* the step made of strategy i
StepOf(strategies, i) ==
    [step_id |-> i, module_id |-> strategies[i].module_id,
     parameters |-> strategies[i].parameters,
     database_info |-> strategies[i].database_info,
     priority |-> strategies[i].priority]

\* C23: create_execution_plan keeps exactly the strategies whose module id is
\* loaded at that moment, one step per retained strategy and none for another
\* id, and returns the steps by ascending priority, steps of equal priority
\* in the order of their strategies.
C23_PlanKeepsLoadedSortedStable ==
    [][ \A strategies \in SeqsUpTo(StrategyInputs, MaxPlanSteps) :
          CreateExecutionPlan(strategies) =>
            /\ Len(execution_plan') = Cardinality(Retained(strategies, loaded_modules))
            /\ \A i \in Retained(strategies, loaded_modules) :
                  \E k \in 1..Len(execution_plan') :
                      execution_plan'[k] = StepOf(strategies, i)
            /\ \A k \in 1..Len(execution_plan') :
                  execution_plan'[k].module_id \in DOMAIN loaded_modules
            /\ \A k, l \in 1..Len(execution_plan') :
                  k < l =>
                    \/ execution_plan'[k].priority < execution_plan'[l].priority
                    \/ /\ execution_plan'[k].priority = execution_plan'[l].priority
                       /\ execution_plan'[k].step_id < execution_plan'[l].step_id ]_vars

\* a plan of three strategies, the second of an id that is not loaded: two
\* steps of equal priority, made of the first and the third strategy
C23_Witness ==
    /\ exec_op = "create_execution_plan"
    /\ Len(execution_plan) = 2
    /\ execution_plan[1].step_id = 1
    /\ execution_plan[2].step_id = 3
    /\ execution_plan[1].priority = execution_plan[2].priority
    /\ "trend_analysis" \notin DOMAIN loaded_modules

\* C24: the step_ids of an execution plan are 1, ..., len(plan), without a
\* gap or a duplicate, also when strategies of unloaded modules were left
\* out.
C24_StepIdsAreOneToLen ==
    /\ {execution_plan[k].step_id : k \in 1..Len(execution_plan)} = 1..Len(execution_plan)
    /\ \A k, l \in 1..Len(execution_plan) :
          execution_plan[k].step_id = execution_plan[l].step_id => k = l

(***************************************************************************)
(* Claims about the priority and the parameters of a strategy (SpecWalker).*)
(***************************************************************************)

\* execution_order of the last generate_strategies call
ExecutionOrder ==
    PlanningCall(user_intent, min_compatibility_score, available_databases).execution_order

\* int(score * 50) + int(intent_match * 30) + int(param_completeness * 20)
BasePriority(s) ==
    LET module_info == registered_modules[s.module_id].info
    IN IntOfProduct(s.compatibility_score, 50)
       + IntOfProduct(CalculateIntentMatch(module_info, user_intent), 30)
       + IntOfProduct(CalculateParameterCompleteness(module_info, s.parameters), 20)

\* 0-based positions of a module id among the required modules
PositionsOf(module_id) ==
    {i \in 0..(Len(RequiredModules) - 1) : RequiredModules[i + 1] = module_id}

\* C25 as stated: the priority of a candidate is its base priority plus
\* (number of required modules - position) * 10 when its module id is in the
\* execution order, and of two candidates of equal base priority the one of
\* the module required earlier has the strictly higher priority.
C25_BonusCountsRequiredModules ==
    walker_op = "generate_strategies" =>
        /\ \A k \in 1..Len(candidates) :
              \E i \in PositionsOf(candidates[k].module_id) :
                  candidates[k].priority = BasePriority(candidates[k])
                      + (IF InList(candidates[k].module_id, ExecutionOrder)
                         THEN (Len(RequiredModules) - i) * 10 ELSE 0)
        /\ \A k, l \in 1..Len(candidates) :
              (/\ BasePriority(candidates[k]) = BasePriority(candidates[l])
               /\ \E i \in PositionsOf(candidates[k].module_id) :
                     \A j \in PositionsOf(candidates[l].module_id) : i < j)
              => candidates[k].priority > candidates[l].priority

\* C25: the priority of a candidate is its base priority plus
\* (len(execution_order) - position) * 10 when its module id is in the
\* execution order, position being the 0-based index of the module among the
\* required modules, and the base priority alone otherwise; of two
\* candidates of equal base priority whose modules are both in the execution
\* order the one made at the earlier position has the strictly higher
\* priority.
C25_BonusCountsExecutionOrder ==
    walker_op = "generate_strategies" =>
        \A k \in 1..Len(candidates) :
            LET s == candidates[k]
                Bonus(i) == IF InList(s.module_id, ExecutionOrder)
                            THEN (Len(ExecutionOrder) - i) * 10 ELSE 0
            IN /\ \E i \in PositionsOf(s.module_id) : s.priority = BasePriority(s) + Bonus(i)
               /\ \A l \in 1..Len(candidates) :
                     LET t == candidates[l]
                     IN (/\ InList(s.module_id, ExecutionOrder)
                         /\ InList(t.module_id, ExecutionOrder)
                         /\ BasePriority(s) = BasePriority(t)
                         /\ \A i \in PositionsOf(s.module_id), j \in PositionsOf(t.module_id) :
                               i < j)
                        => s.priority > t.priority

\* a call whose execution order is shorter than its list of required
\* modules, with a candidate of a module that is in the execution order
C25_Witness ==
    /\ walker_op = "generate_strategies"
    /\ Len(ExecutionOrder) < Len(RequiredModules)
    /\ \E k \in 1..Len(candidates) :
          /\ InList(candidates[k].module_id, ExecutionOrder)
          /\ candidates[k].priority # BasePriority(candidates[k])
                 + (Len(RequiredModules) - 1) * 10
          /\ \E i \in PositionsOf(candidates[k].module_id) :
                i > 0 /\ candidates[k].priority =
                            BasePriority(candidates[k]) + (Len(ExecutionOrder) - i) * 10

\* the parameters every candidate of a dataset starts from: the dataset's
\* location, overwritten by the parameters of the request
BaseParams(db_info) ==
    Merge([k \in {"data_source"} |-> IF db_info.path # "" THEN db_info.path
                                     ELSE db_info.table_name],
          user_intent.parameters)

\* the requirements of a module that are required and not in the base
\* parameters
MissingRequired(module_info, db_info) ==
    {k \in 1..Len(module_info.parameter_requirements) :
        /\ module_info.parameter_requirements[k].required
        /\ module_info.parameter_requirements[k].name \notin DOMAIN BaseParams(db_info)}

\* the names of the missing required boolean parameters without a default
FreeBooleans(module_info, db_info) ==
    {module_info.parameter_requirements[k].name : k \in
        {k \in MissingRequired(module_info, db_info) :
            /\ ~module_info.parameter_requirements[k].has_default
            /\ module_info.parameter_requirements[k].type = "boolean"}}

\* the missing required parameters that have a default, with their default
DefaultsOf(module_info, db_info) ==
    LET reqs == module_info.parameter_requirements
        with == {k \in MissingRequired(module_info, db_info) : reqs[k].has_default}
    IN [n \in {reqs[k].name : k \in with} |->
           reqs[CHOOSE k \in with : reqs[k].name = n].default_value]

\* the parameter dicts C26 allows for a module and a dataset
ExpectedParameters(module_info, db_info) ==
    {Merge(Merge(BaseParams(db_info), DefaultsOf(module_info, db_info)), b) :
        b \in [FreeBooleans(module_info, db_info) -> {"True", "False"}]}

\* C26: for a module and a dataset the parameter candidates are 2^k distinct
\* dicts, k being the number of required boolean parameters without a default
\* that the request does not supply: each holds the default of every required
\* parameter that has one, the request's value of every parameter the request
\* supplies, one of the 2^k assignments of the k booleans, and nothing for any
\* other missing parameter; every candidate strategy carries one of them.
C26_TwoToTheKCandidates ==
    walker_op = "generate_strategies" =>
        /\ \A module_id \in DOMAIN registered_modules :
              \A d \in 1..Len(available_databases) :
                 LET module_info == registered_modules[module_id].info
                     db_info == available_databases[d]
                     made == GenerateParameterCandidates(module_info, user_intent, db_info)
                 IN /\ Len(made) = 2 ^ Cardinality(FreeBooleans(module_info, db_info))
                    /\ {made[j] : j \in 1..Len(made)} = ExpectedParameters(module_info, db_info)
                    /\ \A j \in 1..Len(made) : \A n \in DOMAIN user_intent.parameters :
                          made[j][n] = user_intent.parameters[n]
        /\ \A k \in 1..Len(candidates) :
              LET s == candidates[k]
                  module_info == registered_modules[s.module_id].info
                  same == {l \in 1..Len(candidates) :
                              /\ candidates[l].module_id = s.module_id
                              /\ candidates[l].database_info = s.database_info}
                  times == Cardinality(PositionsOf(s.module_id))
                           * Cardinality({d \in 1..Len(available_databases) :
                                             available_databases[d] = s.database_info})
              IN /\ s.parameters \in ExpectedParameters(module_info, s.database_info)
                 /\ Cardinality(same) =
                       times * 2 ^ Cardinality(FreeBooleans(module_info, s.database_info))
                 /\ \A p \in ExpectedParameters(module_info, s.database_info) :
                       \E l \in same : candidates[l].parameters = p

\* a call whose request supplies one of the two required booleans without a
\* default: two candidates of one module and dataset, each with the request's
\* value, the default of window, and no date_field
C26_Witness ==
    /\ walker_op = "generate_strategies"
    /\ "smooth" \in DOMAIN user_intent.parameters
    /\ \E k \in 1..Len(candidates) :
          LET s == candidates[k]
              module_info == registered_modules[s.module_id].info
          IN /\ FreeBooleans(module_info, s.database_info) = {"detrend"}
             /\ Cardinality({l \in 1..Len(candidates) :
                                /\ candidates[l].module_id = s.module_id
                                /\ candidates[l].database_info = s.database_info}) = 2
             /\ s.parameters["smooth"] = user_intent.parameters["smooth"]
             /\ s.parameters["window"] = "3"
             /\ "date_field" \notin DOMAIN s.parameters

(***************************************************************************)
(* Claims about the planning and the execution stage of the workflow       *)
(* (SpecFlow).                                                             *)
(***************************************************************************)

\* the planning stage has just run on the strategies of the strategy stage
PlanningStageDone ==
    /\ visited # <<>>
    /\ visited[Len(visited)] = "execution_planning"

\* the execution stage has just run on the plan of the planning stage
ExecutionStageJustDone ==
    /\ visited # <<>>
    /\ visited[Len(visited)] = "module_execution"

\* C27: when the strategy list of the strategy stage is not empty and every
\* module id in it is registered in the Walker, the plan of the planning
\* stage has one step per strategy and is not empty.
C27_EmittedStrategiesBecomeSteps ==
    LET strategies == state.walker_strategy.strategies
    IN (/\ PlanningStageDone
        /\ strategies # <<>>
        /\ \A i \in 1..Len(strategies) :
              strategies[i].module_id \in DOMAIN registered_modules)
       => /\ Len(state.execution_plan) = Len(strategies)
          /\ state.execution_plan # <<>>

\* C28: when the execution stage leaves analysis_success true, the plan was
\* not empty and at least one of its steps was executed and succeeded.
C28_SuccessNeedsASuccessfulStep ==
    (ExecutionStageJustDone /\ state.analysis_success) =>
        /\ state.execution_plan # <<>>
        /\ \E i \in 1..Len(state.execution_results) :
              state.execution_results[i].success

(***************************************************************************)
(* Claims about the branch taken after the intent stage (SpecIntent).      *)
(***************************************************************************)

\* the branch should_use_walker takes on a result of parse_intent
RouteOf(parsed_result) ==
    ShouldUseWalker([intent_result |->
        IntentResult(TRUE, parsed_result.intent, parsed_result.need_data_analysis)])

\* C29: for each of the branches sql_agent, walker_strategy and
\* response_generation there is a request and a behaviour of the language
\* model for which parse_intent returns an intent that should_use_walker
\* routes to that branch (stated in the states where parse_intent has
\* returned).
C29_EveryBranchHasAnIntent ==
    intent_parse.called =>
        \A branch \in {"sql_agent", "walker_strategy", "response_generation"} :
            \E user_question \in Questions, reply \in LlmReplies :
                RouteOf(ParseIntentOp(user_question, reply)) = branch

(***************************************************************************)
(* Claims about the data source of a strategy (SpecWalker).                *)
(***************************************************************************)

\* db_info.get('path') or db_info.get('table_name', '')
LocationOf(db_info) ==
    IF db_info.path # "" THEN db_info.path ELSE db_info.table_name

\* C30: every candidate strategy has the parameter data_source, and it is
\* the location of the dataset in the strategy's database_info, whatever the
\* parameters of the request are.
C30_DataSourceIsTheDataset ==
    walker_op = "generate_strategies" =>
        \A k \in 1..Len(candidates) :
            /\ "data_source" \in DOMAIN candidates[k].parameters
            /\ candidates[k].parameters["data_source"] =
                  LocationOf(candidates[k].database_info)

====
